---- MODULE Spec2Model ----
(***************************************************************************)
(* Knowledge-base ingestion pipeline: the ingestion lock (lock.js), the    *)
(* ingestion orchestrator (ingest.js), the durable store (db.js), the      *)
(* delete verb (cli.js) and the embedding gateway (embed.js).               *)
(*                                                                         *)
(* Strings are modelled by the features the code reads from them: a URL is *)
(* a record of its parsed parts, a content is a record of its text         *)
(* identity, its sentence lengths and the counts validateContent derives.  *)
(***************************************************************************)
EXTENDS Integers, Sequences, FiniteSets, TLC

\* ---------------------------------------------------------------- bounds
NumRuns == 2
NumProcs == 2
MaxTicks == 1
MaxCrashes == 1
MaxCalls == 3
MaxBatches == 2
MaxWww == 2
MaxSlashes == 2

\* ------------------------------------------------------ program constants
STALE_MS == 900000
TRUNCATE_MAX == 200000
CHUNK_SIZE == 800
OVERLAP == 200
MIN_CHUNK == 100
BATCH_SIZE == 10
CACHE_MAX == 1000
RETRY_ATTEMPTS == 3
TOPK_DEFAULT == 10

Null == "null"

Min(a, b) == IF a < b THEN a ELSE b

\* ------------------------------------------------------------------ URLs
\* A raw URL string as the record of what new URL(raw) parses out of it:
\* scheme, number of leading "www." labels of the host, the rest of the
\* host, path segments, number of extra trailing slashes, query keys in
\* order, and whether a fragment is present.
TRACKING_PARAMS ==
  {"utm_source", "utm_medium", "utm_campaign", "utm_term", "utm_content",
   "fbclid", "igshid", "ref", "s", "t"}

IsHttp(u) == u.scheme \in {"http", "https"}

RECURSIVE DropTracking(_)
DropTracking(ps) ==
  IF ps = <<>> THEN <<>>
  ELSE IF Head(ps) \in TRACKING_PARAMS THEN DropTracking(Tail(ps))
  ELSE <<Head(ps)>> \o DropTracking(Tail(ps))

\* Code-unit order of the query keys the model uses.
KeyRank(k) ==
  CASE k = "a" -> 1 [] k = "b" -> 2 [] k = "v" -> 3 [] OTHER -> 4

RECURSIVE InsertSorted(_, _)
InsertSorted(k, ps) ==
  IF ps = <<>> THEN <<k>>
  ELSE IF KeyRank(k) < KeyRank(Head(ps)) THEN <<k>> \o ps
  ELSE <<Head(ps)>> \o InsertSorted(k, Tail(ps))

\* URLSearchParams.sort(): stable sort by key.
RECURSIVE SortParams(_)
SortParams(ps) ==
  IF ps = <<>> THEN <<>>
  ELSE LET rest == SortParams(SubSeq(ps, 1, Len(ps) - 1))
       IN  IF rest = <<>> THEN <<ps[Len(ps)]>>
           ELSE IF KeyRank(ps[Len(ps)]) >= KeyRank(rest[Len(rest)])
                THEN rest \o <<ps[Len(ps)]>>
                ELSE InsertSorted(ps[Len(ps)], rest)

\* hostname.replace(/^www\./, ''): one leading label only.
StripWww(u) == [u EXCEPT !.www = IF u.www > 0 THEN u.www - 1 ELSE 0]

AliasHost(u) ==
  IF u.www = 0 /\ u.host = "twitter.com" THEN [u EXCEPT !.host = "x.com"] ELSE u

\* out.endsWith('/') looks at the whole serialized URL, query included.
StripSlash(u) ==
  IF u.params = <<>> /\ u.slashes > 0
  THEN [u EXCEPT !.slashes = u.slashes - 1]
  ELSE u

normalizeUrl(raw) ==
  IF ~IsHttp(raw) THEN raw
  ELSE LET h == AliasHost(StripWww(raw))
           q == [h EXCEPT !.params = SortParams(DropTracking(h.params)),
                          !.frag = FALSE]
       IN  StripSlash(q)

IsDigits(s) == s \in {"1", "2"}

TWITTER_RE(u) ==
  /\ IsHttp(u)
  /\ u.www <= 1
  /\ u.host \in {"twitter.com", "x.com"}
  /\ \E i \in 2..Len(u.path) :
       /\ u.path[i] = "status"
       /\ i + 1 <= Len(u.path)
       /\ IsDigits(u.path[i + 1])

YOUTUBE_RE(u) ==
  /\ IsHttp(u)
  /\ u.www <= 1
  /\ \/ /\ u.host = "youtube.com"
        /\ Len(u.path) = 1 /\ u.path[1] = "watch" /\ u.slashes = 0
        /\ u.params # <<>>
     \/ u.host = "youtu.be"
     \/ /\ u.host = "youtube.com"
        /\ Len(u.path) >= 1 /\ u.path[1] = "shorts"
        /\ (Len(u.path) >= 2 \/ u.slashes > 0)

IsPdfName(s) == s \in {"doc.pdf"}

\* /\.pdf(\?.*)?$/i: the string ends in .pdf, or in .pdf? and anything (a
\* fragment after a query included).
PDF_RE(u) ==
  /\ u.path # <<>>
  /\ IsPdfName(u.path[Len(u.path)])
  /\ u.slashes = 0
  /\ (~u.frag \/ u.params # <<>>)

\* A detectSourceType that tests for http(s) before the extension.
detectSourceTypeHttpFirst(u) ==
  IF u.scheme = "empty" THEN "text"
  ELSE IF ~IsHttp(u) THEN "other"
  ELSE IF TWITTER_RE(u) THEN "tweet"
  ELSE IF YOUTUBE_RE(u) THEN "video"
  ELSE IF PDF_RE(u) THEN "pdf"
  ELSE "article"

\* !url: the empty string, which the model writes as scheme "empty".
detectSourceType(u) ==
  IF u.scheme = "empty" THEN "text"
  ELSE IF TWITTER_RE(u) THEN "tweet"
  ELSE IF YOUTUBE_RE(u) THEN "video"
  ELSE IF PDF_RE(u) THEN "pdf"
  ELSE IF IsHttp(u) THEN "article"
  ELSE "other"

Url(scheme, www, host, path, slashes, params, frag) ==
  [scheme |-> scheme, www |-> www, host |-> host, path |-> path,
   slashes |-> slashes, params |-> params, frag |-> frag]

\* https://www.twitter.com/a/status/1?utm_source=x#y
RawTweetTracked ==
  Url("https", 1, "twitter.com", <<"a", "status", "1">>, 0, <<"utm_source">>, TRUE)
\* https://x.com/a/status/1
RawTweet == Url("https", 0, "x.com", <<"a", "status", "1">>, 0, <<>>, FALSE)
\* https://example.com/b
RawArticle == Url("https", 0, "example.com", <<"b">>, 0, <<>>, FALSE)

RawUrls == {RawTweetTracked, RawTweet, RawArticle}

\* -------------------------------------------------------------- contents
\* A content string: text names its first TRUNCATE_MAX characters, tail
\* what follows them (0: nothing), sents the lengths of its sentences
\* (joined by single spaces), paras/longParas/hits what validateContent
\* counts in it.
RECURSIVE SumSeq(_)
SumSeq(s) == IF s = <<>> THEN 0 ELSE Head(s) + SumSeq(Tail(s))

ContentLength(c) ==
  IF c.sents = <<>> THEN 0 ELSE SumSeq(c.sents) + Len(c.sents) - 1

\* content.slice(0, max) on the sentence lengths.
RECURSIVE SliceSents(_, _)
SliceSents(s, max) ==
  IF s = <<>> \/ max <= 0 THEN <<>>
  ELSE IF Head(s) >= max THEN <<max>>
  ELSE <<Head(s)>> \o SliceSents(Tail(s), max - Head(s) - 1)

\* A truncateContent that never cuts.
truncateContentNever(c) == c

truncateContent(c) ==
  IF ContentLength(c) > TRUNCATE_MAX
  THEN [c EXCEPT !.sents = SliceSents(c.sents, TRUNCATE_MAX), !.tail = 0]
  ELSE c

\* A validateContent that asks 500 characters of every video.
validateContentNoTranscript(c, sourceType, metadata) ==
  LET len == ContentLength(c)
      minLength == 500
  IN  IF len < 20 THEN [valid |-> FALSE, reason |-> "too_short_20"]
      ELSE IF sourceType # "tweet" /\ len < minLength
           THEN [valid |-> FALSE, reason |-> "too_short_type"]
      ELSE IF sourceType # "tweet" /\ c.paras > 0
              /\ c.longParas * 100 < 15 * c.paras
           THEN [valid |-> FALSE, reason |-> "low_prose"]
      ELSE IF c.hits >= 2 THEN [valid |-> FALSE, reason |-> "error_page"]
      ELSE [valid |-> TRUE, reason |-> Null]

validateContent(c, sourceType, metadata) ==
  LET len == ContentLength(c)
      allowShortVideo == sourceType = "video" /\ metadata.has_transcript
      minLength == IF allowShortVideo THEN 200 ELSE 500
  IN  IF len < 20 THEN [valid |-> FALSE, reason |-> "too_short_20"]
      ELSE IF sourceType # "tweet" /\ len < minLength
           THEN [valid |-> FALSE, reason |-> "too_short_type"]
      ELSE IF sourceType # "tweet" /\ c.paras > 0
              /\ c.longParas * 100 < 15 * c.paras
           THEN [valid |-> FALSE, reason |-> "low_prose"]
      ELSE IF c.hits >= 2 THEN [valid |-> FALSE, reason |-> "error_page"]
      ELSE [valid |-> TRUE, reason |-> Null]

\* SHA-256 of the content: a digest determined by the text alone.
contentHash(c) == <<"sha256", c.text, c.tail, ContentLength(c)>>

\* content_hash of a Source stored with empty content.
NullHash == <<"null">>

\* chunkText on sentence lengths: the lengths of the emitted chunks. current
\* is current.length and ws the whitespace current starts with, which
\* current.trim() drops: the first sentence keeps the whitespace the text
\* starts with, and current.slice(-OVERLAP) keeps what is left of it in the
\* last OVERLAP characters.
RECURSIVE ChunkLoop(_, _, _, _)
ChunkLoop(sents, current, ws, chunks) ==
  IF sents = <<>>
  THEN IF current - ws > 0
       THEN IF current - ws < MIN_CHUNK /\ chunks # <<>>
            THEN [chunks EXCEPT ![Len(chunks)] = @ + 1 + current - ws]
            ELSE chunks \o <<current - ws>>
       ELSE chunks
  ELSE LET s == Head(sents)
       IN  IF current + s > CHUNK_SIZE /\ current >= MIN_CHUNK
           THEN ChunkLoop(Tail(sents), Min(current, OVERLAP) + s,
                          IF current <= OVERLAP THEN ws
                          ELSE IF ws > current - OVERLAP
                               THEN ws - (current - OVERLAP) ELSE 0,
                          chunks \o <<current - ws>>)
           ELSE ChunkLoop(Tail(sents),
                          current + (IF current > 0 THEN 1 ELSE 0) + s,
                          ws, chunks)

chunkText(c) ==
  IF ContentLength(c) = 0 THEN <<>>
  ELSE IF ContentLength(c) < MIN_CHUNK THEN <<ContentLength(c)>>
  ELSE ChunkLoop(c.sents, 0, c.lead, <<>>)

Content(text, tail, sents, paras, longParas, hits) ==
  [text |-> text, tail |-> tail, sents |-> sents, paras |-> paras,
   longParas |-> longParas, hits |-> hits, lead |-> 0]

\* Content c after n characters of whitespace (the blank lines a PDF's text
\* starts with): they belong to its first sentence.
Padded(c, n) ==
  [c EXCEPT !.sents = [@ EXCEPT ![1] = @ + n], !.lead = n]

EmptyContent == Content(0, 0, <<>>, 0, 0, 0)
\* 60 characters: long enough for a tweet, too short for an article.
ShortContent == Content(1, 0, <<60>>, 1, 0, 0)
\* 1001 characters of prose in two sentences: valid for every type, two chunks.
ArticleContent == Content(2, 0, <<700, 300>>, 1, 1, 0)

\* Prose in BATCH_SIZE + 1 sentences of 700 characters: as many chunks, one
\* more than a batch takes.
LongContent == Content(3, 0, [i \in 1..(BATCH_SIZE + 1) |-> 700], 1, 1, 0)

RawContents == {EmptyContent, ShortContent, ArticleContent}

Metas == {[has_transcript |-> FALSE]}

\* What extractContent can return for a URL of a source type: extractTweet
\* returns text or throws; the other extractors can return empty content.
ExtractedFrom(contents, sourceType) ==
  IF sourceType = "tweet" THEN {c \in contents : ContentLength(c) > 0}
  ELSE contents

ExtractedContents(sourceType) == ExtractedFrom(RawContents, sourceType)


\* ------------------------------------------------------ embedding result
Providers == {"google", "openai"}
ModelOf(p) ==
  IF p = "google" THEN "text-embedding-004" ELSE "text-embedding-3-small"

\* Length of the vectors a provider's model returns.
DimOf(p) == IF p = "google" THEN 2 ELSE 3

\* The vector provider p returns for text t; no vector.
Vec(t, p) == [text |-> t, len |-> DimOf(p), provider |-> p]
NoVec == [text |-> 0, len |-> 0, provider |-> Null]

NumBatches(n) == (n + BATCH_SIZE - 1) \div BATCH_SIZE

BatchOf(i) == ((i - 1) \div BATCH_SIZE) + 1

\* What embedTexts returns for n uncached texts when batch b was answered
\* by provider ps[b]: every vector as its provider returned it, and the
\* dim/provider left by the last batch.
EmbedTextsResult(n, ps) ==
  [embeddings |-> [i \in 1..n |-> [len |-> DimOf(ps[BatchOf(i)]),
                                   provider |-> ps[BatchOf(i)]]],
   dim |-> DimOf(ps[NumBatches(n)]),
   provider |-> ps[NumBatches(n)]]

NoEmbedding == [embeddings |-> <<>>, dim |-> 0, provider |-> Null]

\* ------------------------------------------------------------- processes
Runs == 1..NumRuns

Pids == 1..NumProcs

NoUrl == Url("none", 0, "", <<>>, 0, <<>>, FALSE)

\* The file at lockPath(): absent, empty (opened for writing, not yet
\* written: JSON.parse throws on it) or a marker { pid, ts }. ino names the
\* file itself (the run that created it) and run the run that wrote the
\* marker; neither is in the file's text.
NoFile == [kind |-> "none", pid |-> 0, ts |-> 0, run |-> 0, ino |-> 0]
EmptyFile(ino) == [kind |-> "corrupt", pid |-> 0, ts |-> 0, run |-> 0, ino |-> ino]
Marker(p, ts, run, ino) ==
  [kind |-> "marker", pid |-> p, ts |-> ts, run |-> run, ino |-> ino]


Thrown == {"busy", "lock_error", "extract_error", "embed_error", "commit_error"}

VARIABLES
  lockFile,   \* kb.lock in the data directory
  now,        \* Date.now()
  ticks,      \* clock advances so far
  alive,      \* alive[p]: process p exists
  sources,    \* rows of table sources
  chunks,     \* rows of table chunks
  pc,         \* pc[r]: where run r stands
  pid,        \* pid[r]: process.pid of the process run r is a call in
  fd,         \* fd[r]: the file run r's writeFileSync has open (0: none)
  saw,        \* saw[r]: what run r's readFileSync found: "unread", "none" (no
              \* file), "corrupt", "fresh" (live holder, younger than STALE_MS),
              \* "boundary" (live holder, exactly STALE_MS old) or "abandoned"
  raw,        \* raw[r]: the rawUrl run r was called with
  content,    \* content[r]: the truncated content run r went on to embed
  outcome,    \* outcome[r]: status returned or error thrown
  holding,    \* holding[r]: r is between its acquireLock and its release
  acquired,   \* acquired[r]: r's acquireLock returned a release function
  wrote,      \* wrote[r]: rows r's transaction left in the store
  urlSeen,    \* urlSeen[r]: a Source with r's normalized URL is stored since r began
  before,     \* before[r]: the ids of the Sources stored when r began
  hashSeen,   \* hashSeen[r]: r extracted content whose hash a Source of another
              \* URL, stored since before r began, held ("valid"/"invalid": as
              \* validateContent judged the content for r), or "no"
  extracted   \* extracted[r]: "no", or whether the content extractContent
              \* returned to r was "empty" or "text"

\* The embedding gateway of one process (embed.js).
VARIABLES
  keys,         \* the providers whose API key is set in process.env
  cache,        \* the LRUCache: its Map's entries, oldest first
  calls,        \* embedTexts calls made so far
  epc,          \* where the embedTexts call in progress stands
  texts,        \* its argument
  results,      \* its results array (NoEntry: slot not yet filled)
  uncachedIdx,  \* the indices of the texts the cache did not hold
  b,            \* the offset of the current batch in uncached
  attempt,      \* failed attempts of the current provider call
  provider,     \* provider, model, dim: those of the last batch's result
  model,
  dim,
  ret,          \* what the call returned
  error,        \* what the call threw
  sent,         \* the requests the call has sent: provider, batch, answered
  cachedAtCall, \* the texts the cache held when the call began
  embedded,     \* what the calls that returned have embedded: text, vector,
                \* and whether the cache has held the text ever since
  failed        \* the last call a provider failure ended: its number, its
                \* texts, and the texts of its answered batches

\* A query (retrieve.js) in a process of its own.
VARIABLES
  qpc,          \* where the query stands
  question,     \* its first argument
  topK,         \* its second argument
  qdim,         \* the dim embedQuery returned
  scored,       \* the scored array after the sort
  qresults      \* what query returned

\* A caller of normalizeUrl (normalize.js).
VARIABLES
  upc,          \* where the caller stands
  rawUrl,       \* the string it starts from
  once,         \* normalizeUrl(rawUrl)
  twice,        \* normalizeUrl(once)
  stype         \* detectSourceType(rawUrl)

\* A caller of validateContent or chunkText.
VARIABLES
  fpc,          \* "idle", then "validated" or "chunked"
  fin,          \* the arguments of the call
  fout          \* what the call returned

\* The use of the LRUCache, kept beside it.
VARIABLES
  ops,          \* the get and set operations made on the cache so far
  lastUse       \* lastUse[k]: the operation that last read (a hit) or wrote
                \* key k, 0 when none did

ingestVars ==
  <<lockFile, now, ticks, alive, sources, chunks, pc, pid, fd, saw, raw, content,
    outcome, holding, acquired, wrote, urlSeen, before, hashSeen, extracted>>

callVars ==
  <<epc, texts, results, uncachedIdx, b, attempt, provider, model, dim, ret, error,
    sent>>

ghostEmbed == <<cachedAtCall, embedded, failed>>

embedVars == <<keys, cache, calls, callVars, ghostEmbed>>

queryVars == <<qpc, question, topK, qdim, scored, qresults>>

lruVars == <<ops, lastUse>>
fnVars == <<fpc, fin, fout, lruVars>>
urlVars == <<upc, rawUrl, once, twice, stype, fnVars>>

vars == <<ingestVars, embedVars, queryVars, urlVars>>

\* What the steps of an ingest run, and those of an embedTexts call, leave
\* alone.
beyondIngest == <<embedVars, queryVars, urlVars>>
beyondEmbed == <<ingestVars, queryVars, urlVars>>

storeVars == <<sources, chunks>>
runVars == <<pc, pid, fd, saw, raw, content, outcome, holding, acquired, wrote>>
ghostVars == <<urlSeen, before, hashSeen, extracted>>
envVars == <<now, ticks, alive>>

IngestInit ==
  /\ lockFile = NoFile
  /\ now = 0
  /\ ticks = 0
  /\ alive = [p \in Pids |-> TRUE]
  /\ sources = {}
  /\ chunks = {}
  /\ pc = [r \in Runs |-> "idle"]
  /\ pid = [r \in Runs |-> 0]
  /\ fd = [r \in Runs |-> 0]
  /\ saw = [r \in Runs |-> "unread"]
  /\ raw = [r \in Runs |-> NoUrl]
  /\ content = [r \in Runs |-> EmptyContent]
  /\ outcome = [r \in Runs |-> Null]
  /\ holding = [r \in Runs |-> FALSE]
  /\ acquired = [r \in Runs |-> FALSE]
  /\ wrote = [r \in Runs |-> 0]
  /\ urlSeen = [r \in Runs |-> FALSE]
  /\ before = [r \in Runs |-> {}]
  /\ hashSeen = [r \in Runs |-> "no"]
  /\ extracted = [r \in Runs |-> "no"]

\* No embedTexts call in progress.
NoEntry == [embedding |-> NoVec, dim |-> 0, provider |-> Null, model |-> Null]
NoReturn == [embeddings |-> <<>>, dim |-> 0, provider |-> Null, model |-> Null]

\* The errors embedTexts throws: the TypeError of results[0].dim on an empty
\* array, and the Error made of the messages of both providers' errors.
NoError == <<>>
TypeError == <<"TypeError">>
EmbeddingFailed(geminiErr, openaiErr) ==
  <<"Embedding failed", geminiErr, openaiErr>>

NoCall ==
  /\ epc = "idle"
  /\ texts = <<>>
  /\ results = <<>>
  /\ uncachedIdx = <<>>
  /\ b = 0
  /\ attempt = 0
  /\ provider = Null
  /\ model = Null
  /\ dim = 0
  /\ ret = NoReturn
  /\ error = NoError
  /\ sent = <<>>

\* No call has failed yet.
NoFailure == [call |-> 0, texts |-> <<>>, done |-> {}]

\* A fresh process: the module-level cache is empty.
GatewayInit ==
  /\ cache = <<>>
  /\ calls = 0
  /\ NoCall
  /\ cachedAtCall = {}
  /\ embedded = {}
  /\ failed = NoFailure

\* No query has been made.
QueryInit ==
  /\ qpc = "idle"
  /\ question = 0
  /\ topK = 0
  /\ qdim = 0
  /\ scored = <<>>
  /\ qresults = <<>>

\* normalizeUrl has not been called.
LruInit ==
  /\ ops = 0
  /\ lastUse = <<>>

FnInit ==
  /\ fpc = "idle"
  /\ fin = Null
  /\ fout = Null
  /\ LruInit

UrlInit ==
  /\ upc = "idle"
  /\ rawUrl = NoUrl
  /\ once = NoUrl
  /\ twice = NoUrl
  /\ stype = Null
  /\ FnInit

Init ==
  /\ IngestInit
  /\ GatewayInit
  /\ QueryInit
  /\ UrlInit
  /\ keys = Providers

\* A run in the middle of a synchronous stretch of JavaScript: the other
\* calls of its process cannot run until it reaches its next await.
InSync(r) ==
  pc[r] \in {"exists", "read", "unlink", "open", "write", "dedup", "commit",
             "release"}

CanStep(r) ==
  /\ alive[pid[r]]
  /\ \A r2 \in Runs \ {r} : pid[r2] = pid[r] => ~InSync(r2)

isPidAlive(p) == p \in Pids /\ alive[p]

SourceByUrl(u) == {s \in sources : s.url = u}
SourceByHash(h) == {s \in sources : s.content_hash = h}

\* ingest(rawUrl) is called in process p (run r is in one of the first r
\* processes: which process is which does not matter).
Start(r) ==
  /\ pc[r] = "idle"
  /\ \E p \in Pids :
       /\ p <= r
       /\ alive[p]
       /\ \A r2 \in Runs \ {r} : pid[r2] = p => ~InSync(r2)
       /\ pid' = [pid EXCEPT ![r] = p]
  /\ \E u \in RawUrls :
       /\ raw' = [raw EXCEPT ![r] = u]
       /\ urlSeen' = [urlSeen EXCEPT ![r] =
             \E s \in sources : s.url = normalizeUrl(u)]
  /\ before' = [before EXCEPT ![r] = {s.id : s \in sources}]
  /\ pc' = [pc EXCEPT ![r] = "exists"]
  /\ UNCHANGED <<lockFile, envVars, storeVars, fd, saw, content, outcome,
                 holding, acquired, wrote, hashSeen, extracted>>
  /\ UNCHANGED beyondIngest

\* acquireLock: existsSync(lp)
LockExists(r) ==
  /\ pc[r] = "exists"
  /\ CanStep(r)
  /\ pc' = [pc EXCEPT ![r] = IF lockFile.kind # "none" THEN "read" ELSE "open"]
  /\ UNCHANGED <<lockFile, envVars, storeVars, pid, fd, saw, raw, content, outcome,
                 holding, acquired, wrote, ghostVars>>
  /\ UNCHANGED beyondIngest

\* FreshHolder with the age comparison the wrong way round.
FreshHolderReversed(m) == now - m.ts > STALE_MS /\ isPidAlive(m.pid)

\* The holder is alive and the marker is younger than STALE_MS.
FreshHolder(m) == now - m.ts < STALE_MS /\ isPidAlive(m.pid)

\* acquireLock: readFileSync, JSON.parse, the age and liveness test.
LockRead(r) ==
  /\ pc[r] = "read"
  /\ CanStep(r)
  /\ saw' = [saw EXCEPT ![r] =
        IF lockFile.kind # "marker" THEN lockFile.kind
        ELSE IF lockFile.pid \notin Pids \/ ~alive[lockFile.pid] THEN "abandoned"
        ELSE IF now - lockFile.ts > STALE_MS THEN "abandoned"
        ELSE IF now - lockFile.ts = STALE_MS THEN "boundary"
        ELSE "fresh"]
  /\ IF lockFile.kind = "marker" /\ FreshHolder(lockFile)
     THEN /\ pc' = [pc EXCEPT ![r] = "done"]
          /\ outcome' = [outcome EXCEPT ![r] = "busy"]
     ELSE /\ pc' = [pc EXCEPT ![r] = "unlink"]
          /\ UNCHANGED outcome
  /\ UNCHANGED <<lockFile, envVars, storeVars, pid, fd, raw, content, holding,
                 acquired, wrote, ghostVars>>
  /\ UNCHANGED beyondIngest

\* acquireLock: unlinkSync(lp) of the abandoned or corrupt marker; it throws
\* when the file is gone.
LockUnlink(r) ==
  /\ pc[r] = "unlink"
  /\ CanStep(r)
  /\ IF lockFile.kind = "none"
     THEN /\ pc' = [pc EXCEPT ![r] = "done"]
          /\ outcome' = [outcome EXCEPT ![r] = "lock_error"]
          /\ UNCHANGED lockFile
     ELSE /\ pc' = [pc EXCEPT ![r] = "open"]
          /\ lockFile' = NoFile
          /\ UNCHANGED outcome
  /\ UNCHANGED <<envVars, storeVars, pid, fd, saw, raw, content, holding, acquired,
                 wrote, ghostVars>>
  /\ UNCHANGED beyondIngest

\* acquireLock: writeFileSync opens the file, creating or truncating it.
LockOpen(r) ==
  /\ pc[r] = "open"
  /\ CanStep(r)
  /\ LET ino == IF lockFile.kind = "none" THEN r ELSE lockFile.ino
     IN  /\ lockFile' = EmptyFile(ino)
         /\ fd' = [fd EXCEPT ![r] = ino]
  /\ pc' = [pc EXCEPT ![r] = "write"]
  /\ UNCHANGED <<envVars, storeVars, pid, saw, raw, content, outcome, holding,
                 acquired, wrote, ghostVars>>
  /\ UNCHANGED beyondIngest

\* acquireLock: writeFileSync writes { pid, ts } into the file it opened
\* (which is no longer the file at lockPath() if that was unlinked meanwhile);
\* the release function is returned.
LockWrite(r) ==
  /\ pc[r] = "write"
  /\ CanStep(r)
  /\ lockFile' = IF lockFile.kind # "none" /\ lockFile.ino = fd[r]
                 THEN Marker(pid[r], now, r, fd[r])
                 ELSE lockFile
  /\ fd' = [fd EXCEPT ![r] = 0]
  /\ pc' = [pc EXCEPT ![r] = "dedup"]
  /\ holding' = [holding EXCEPT ![r] = TRUE]
  /\ acquired' = [acquired EXCEPT ![r] = TRUE]
  /\ UNCHANGED <<envVars, storeVars, pid, saw, raw, content, outcome, wrote,
                 ghostVars>>
  /\ UNCHANGED beyondIngest

\* ingest without its finally block: an exception goes straight to the caller.
NoFinally == "done"

\* Where ingest continues when _ingest throws: its finally block.
OnThrow == "release"

\* Where ingest continues when _ingest returns: its finally block.
OnReturn == "release"

\* UrlDedup looking the raw URL up instead of the normalized one.
UrlDedupRaw(r) ==
  /\ pc[r] = "dedup"
  /\ CanStep(r)
  /\ IF SourceByUrl(raw[r]) # {}
     THEN /\ outcome' = [outcome EXCEPT ![r] = "duplicate_url"]
          /\ pc' = [pc EXCEPT ![r] = OnReturn]
     ELSE /\ pc' = [pc EXCEPT ![r] = "extract"]
          /\ UNCHANGED outcome
  /\ UNCHANGED <<lockFile, envVars, storeVars, pid, fd, saw, raw, content, holding,
                 acquired, wrote, ghostVars>>
  /\ UNCHANGED beyondIngest

\* _ingest: normalizeUrl, detectSourceType and the URL dedup lookup.
UrlDedup(r) ==
  /\ pc[r] = "dedup"
  /\ CanStep(r)
  /\ IF SourceByUrl(normalizeUrl(raw[r])) # {}
     THEN /\ outcome' = [outcome EXCEPT ![r] = "duplicate_url"]
          /\ pc' = [pc EXCEPT ![r] = OnReturn]
     ELSE /\ pc' = [pc EXCEPT ![r] = "extract"]
          /\ UNCHANGED outcome
  /\ UNCHANGED <<lockFile, envVars, storeVars, pid, fd, saw, raw, content, holding,
                 acquired, wrote, ghostVars>>
  /\ UNCHANGED beyondIngest

\* randomUUID(): the k-th id run r mints; no two calls return the same id.
Uuid(r, k) == <<r, k>>

\* A SourceRow that hashes empty content too.
SourceRowHashed(r, id, text) ==
  [kind |-> "source", id |-> id, url |-> normalizeUrl(raw[r]),
   source_type |-> detectSourceType(normalizeUrl(raw[r])),
   raw_content |-> text,
   content_hash |-> contentHash(text)]

\* The row insertSource.run writes.
SourceRow(r, id, text) ==
  [kind |-> "source", id |-> id, url |-> normalizeUrl(raw[r]),
   source_type |-> detectSourceType(normalizeUrl(raw[r])),
   raw_content |-> text,
   content_hash |-> IF ContentLength(text) > 0 THEN contentHash(text)
                    ELSE NullHash]

\* A ChunkRow that numbers the chunks from 1.
ChunkRowFromOne(r, id, cs, e, i) ==
  [kind |-> "chunk", id |-> Uuid(r, i), source_id |-> id, chunk_index |-> i,
   content |-> cs[i],
   embedding |-> e.embeddings[i].len,
   embedding_dim |-> e.dim,
   embedding_provider |-> e.provider]

\* The row the i-th insertChunk.run writes (chunk_index is i - 1).
ChunkRow(r, id, cs, e, i) ==
  [kind |-> "chunk", id |-> Uuid(r, i), source_id |-> id, chunk_index |-> i - 1,
   content |-> cs[i],
   embedding |-> e.embeddings[i].len,
   embedding_dim |-> e.dim,
   embedding_provider |-> e.provider]

\* The statements of the transaction, in the order tx runs them.
RECURSIVE ChunkRows(_, _, _, _, _)
ChunkRows(r, id, cs, e, i) ==
  IF i > Len(cs) THEN <<>>
  ELSE <<ChunkRow(r, id, cs, e, i)>> \o ChunkRows(r, id, cs, e, i + 1)

\* A transaction that inserts the Source row a second time under a new id.
TxRowsSourceTwice(r, id, text, e) ==
  <<SourceRow(r, id, text)>> \o ChunkRows(r, id, chunkText(text), e, 1)
    \o <<SourceRow(r, Uuid(r, CACHE_MAX), text)>>

TxRows(r, id, text, e) ==
  <<SourceRow(r, id, text)>> \o ChunkRows(r, id, chunkText(text), e, 1)

\* A schema whose content_hash column is not UNIQUE.
NoUniqueConstraint(srcs, row) == FALSE

\* sources.content_hash is UNIQUE (NULLs exempt); sources.url is not.
UniqueViolation(srcs, row) ==
  /\ row.content_hash # NullHash
  /\ \E s \in srcs : s.content_hash = row.content_hash

\* The first statement of rows that throws: the source insert when it breaks
\* the UNIQUE constraint, else the statement the environment fails (0: none).
FirstFailure(srcs, rows, envFail) ==
  IF UniqueViolation(srcs, rows[1]) THEN 1 ELSE envFail

StripKind(row) == [f \in DOMAIN row \ {"kind"} |-> row[f]]

\* The tables after the first k statements of rows.
ApplyInserts(store, rows, k) ==
  [sources |-> store.sources \cup
       {StripKind(rows[i]) : i \in {j \in 1..k : rows[j].kind = "source"}},
   chunks |-> store.chunks \cup
       {StripKind(rows[i]) : i \in {j \in 1..k : rows[j].kind = "chunk"}}]

\* The statements run outside a transaction: those before the one that throws
\* stay.
NoRollback(store, rows, failAt) ==
  ApplyInserts(store, rows, IF failAt = 0 THEN Len(rows) ELSE failAt - 1)

\* db.transaction: every statement, or a rollback when statement failAt throws.
Transaction(store, rows, failAt) ==
  IF failAt = 0 THEN ApplyInserts(store, rows, Len(rows)) ELSE store

\* _ingest from "Store in a transaction" to its return: mint the ids, run
\* the transaction on content text with embeddings e, return the status.
Commit(r, text, e) ==
  LET rows == TxRows(r, Uuid(r, 0), text, e)
      store == [sources |-> sources, chunks |-> chunks]
  IN  \E envFail \in {0, 1, Len(rows)} :
        LET failAt == FirstFailure(sources, rows, envFail)
            after == Transaction(store, rows, failAt)
        IN  /\ sources' = after.sources
            /\ chunks' = after.chunks
            /\ wrote' = [wrote EXCEPT ![r] =
                  Cardinality(after.sources \ sources)
                    + Cardinality(after.chunks \ chunks)]
            /\ outcome' = [outcome EXCEPT ![r] =
                  IF failAt # 0 THEN "commit_error"
                  ELSE IF ContentLength(text) > 0 THEN "ok"
                  ELSE "pending_transcript"]
            /\ pc' = [pc EXCEPT ![r] = IF failAt # 0 THEN OnThrow ELSE OnReturn]

\* AfterExtract without the content-hash lookup.
AfterExtractNoHashDedup(r, c, m) ==
  LET url == normalizeUrl(raw[r])
      text == truncateContent(c)
      validation == validateContent(text, detectSourceType(url), m)
  IN  IF ~validation.valid /\ ContentLength(text) > 0 THEN "invalid"
      ELSE IF Len(chunkText(text)) > 0 THEN "embed"
      ELSE "commit"

\* Where _ingest goes once extractContent has returned content c with
\* metadata m: validation, then the content-hash lookup, then chunking.
AfterExtract(r, c, m) ==
  LET url == normalizeUrl(raw[r])
      text == truncateContent(c)
      validation == validateContent(text, detectSourceType(url), m)
  IN  IF ~validation.valid /\ ContentLength(text) > 0 THEN "invalid"
      ELSE IF ContentLength(text) > 0 /\ SourceByHash(contentHash(text)) # {}
           THEN "duplicate_content"
      ELSE IF Len(chunkText(text)) > 0 THEN "embed"
      ELSE "commit"

\* extractContent throws.
ExtractFail(r) ==
  /\ pc[r] = "extract"
  /\ CanStep(r)
  /\ outcome' = [outcome EXCEPT ![r] = "extract_error"]
  /\ pc' = [pc EXCEPT ![r] = OnThrow]
  /\ UNCHANGED <<lockFile, envVars, storeVars, pid, fd, saw, raw, content, holding,
                 acquired, wrote, ghostVars>>
  /\ UNCHANGED beyondIngest

\* An ExtractOf that embeds non-empty content before validating it or
\* looking up its hash.
ExtractOfEmbedFirst(r, contents) ==
  /\ pc[r] = "extract"
  /\ CanStep(r)
  /\ \E c \in ExtractedFrom(contents, detectSourceType(normalizeUrl(raw[r]))),
        m \in Metas :
       LET text == truncateContent(c)
           next == IF ContentLength(text) > 0 THEN "embed" ELSE "commit"
       IN  /\ extracted' = [extracted EXCEPT ![r] =
                 IF ContentLength(c) > 0 THEN "text" ELSE "empty"]
           /\ hashSeen' = [hashSeen EXCEPT ![r] =
                 IF /\ ContentLength(text) > 0
                    /\ \E s \in sources :
                         /\ s.id \in before[r]
                         /\ s.content_hash = contentHash(text)
                         /\ s.url # normalizeUrl(raw[r])
                 THEN IF validateContent(text,
                            detectSourceType(normalizeUrl(raw[r])), m).valid
                      THEN "valid" ELSE "invalid"
                 ELSE "no"]
           /\ CASE next \in {"invalid", "duplicate_content"} ->
                     /\ outcome' = [outcome EXCEPT ![r] = next]
                     /\ pc' = [pc EXCEPT ![r] = OnReturn]
                     /\ UNCHANGED <<storeVars, content, wrote>>
                [] next = "embed" ->
                     /\ content' = [content EXCEPT ![r] = text]
                     /\ pc' = [pc EXCEPT ![r] = "embed"]
                     /\ UNCHANGED <<storeVars, outcome, wrote>>
                [] next = "commit" ->
                     /\ Commit(r, text, NoEmbedding)
                     /\ UNCHANGED content
  /\ UNCHANGED <<lockFile, envVars, pid, fd, saw, raw, holding, acquired, urlSeen,
                 before>>
  /\ UNCHANGED beyondIngest

\* extractContent returns one of contents; _ingest runs on to the embedTexts
\* call, or to its return when it ends early or has nothing to embed.
ExtractOf(r, contents) ==
  /\ pc[r] = "extract"
  /\ CanStep(r)
  /\ \E c \in ExtractedFrom(contents, detectSourceType(normalizeUrl(raw[r]))),
        m \in Metas :
       LET text == truncateContent(c)
           next == AfterExtract(r, c, m)
       IN  /\ extracted' = [extracted EXCEPT ![r] =
                 IF ContentLength(c) > 0 THEN "text" ELSE "empty"]
           /\ hashSeen' = [hashSeen EXCEPT ![r] =
                 IF /\ ContentLength(text) > 0
                    /\ \E s \in sources :
                         /\ s.id \in before[r]
                         /\ s.content_hash = contentHash(text)
                         /\ s.url # normalizeUrl(raw[r])
                 THEN IF validateContent(text,
                            detectSourceType(normalizeUrl(raw[r])), m).valid
                      THEN "valid" ELSE "invalid"
                 ELSE "no"]
           /\ CASE next \in {"invalid", "duplicate_content"} ->
                     /\ outcome' = [outcome EXCEPT ![r] = next]
                     /\ pc' = [pc EXCEPT ![r] = OnReturn]
                     /\ UNCHANGED <<storeVars, content, wrote>>
                [] next = "embed" ->
                     /\ content' = [content EXCEPT ![r] = text]
                     /\ pc' = [pc EXCEPT ![r] = "embed"]
                     /\ UNCHANGED <<storeVars, outcome, wrote>>
                [] next = "commit" ->
                     /\ Commit(r, text, NoEmbedding)
                     /\ UNCHANGED content
  /\ UNCHANGED <<lockFile, envVars, pid, fd, saw, raw, holding, acquired, urlSeen,
                 before>>
  /\ UNCHANGED beyondIngest

Extract(r) == ExtractOf(r, RawContents)

\* embedTexts throws: both providers failed on some batch.
EmbedFail(r) ==
  /\ pc[r] = "embed"
  /\ CanStep(r)
  /\ outcome' = [outcome EXCEPT ![r] = "embed_error"]
  /\ pc' = [pc EXCEPT ![r] = OnThrow]
  /\ UNCHANGED <<lockFile, envVars, storeVars, pid, fd, saw, raw, content, holding,
                 acquired, wrote, ghostVars>>
  /\ UNCHANGED beyondIngest

\* embedTexts returns; _ingest stores the Source and its Chunks and returns.
Embed(r) ==
  /\ pc[r] = "embed"
  /\ CanStep(r)
  /\ LET n == Len(chunkText(content[r]))
     IN  \E ps \in [1..NumBatches(n) -> Providers] :
           Commit(r, content[r], EmbedTextsResult(n, ps))
  /\ UNCHANGED <<lockFile, envVars, pid, fd, saw, raw, content, holding, acquired,
                 ghostVars>>
  /\ UNCHANGED beyondIngest

\* ingest: the finally block calls release(), which unlinks the marker file
\* and ignores a missing file; then ingest returns or rethrows.
Release(r) ==
  /\ pc[r] = "release"
  /\ CanStep(r)
  /\ lockFile' = NoFile
  /\ holding' = [holding EXCEPT ![r] = FALSE]
  /\ pc' = [pc EXCEPT ![r] = "done"]
  /\ UNCHANGED <<envVars, storeVars, pid, fd, saw, raw, content, outcome, acquired,
                 wrote, ghostVars>>
  /\ UNCHANGED beyondIngest

\* A DeleteSource without the cascade (foreign_keys off).
DeleteSourceNoCascade(store, id) ==
  [sources |-> {s \in store.sources : s.id # id},
   chunks |-> store.chunks]

\* DELETE FROM sources WHERE id = ?, with ON DELETE CASCADE on chunks.
DeleteSource(store, id) ==
  [sources |-> {s \in store.sources : s.id # id},
   chunks |-> {c \in store.chunks : c.source_id # id}]

\* kb delete <id>
Delete ==
  /\ \E s \in sources :
       LET after == DeleteSource([sources |-> sources, chunks |-> chunks], s.id)
       IN  /\ sources' = after.sources
           /\ chunks' = after.chunks
           /\ urlSeen' = [r \in Runs |->
                 urlSeen[r] /\ normalizeUrl(raw[r]) # s.url]
  /\ UNCHANGED <<lockFile, envVars, runVars, before, hashSeen, extracted>>
  /\ UNCHANGED beyondIngest

\* Time passes: a millisecond less than the staleness threshold, the
\* threshold, or a millisecond more. (Only acquireLock's age test reads the
\* clock against a marker, so the clock is moved only when a marker exists
\* and a run is about to read it.)
Tick ==
  /\ ticks < MaxTicks
  /\ lockFile.kind = "marker"
  /\ \E r \in Runs : pc[r] = "read"
  /\ \E d \in {STALE_MS - 1, STALE_MS, STALE_MS + 1} : now' = now + d
  /\ ticks' = ticks + 1
  /\ UNCHANGED <<lockFile, alive, storeVars, runVars, ghostVars>>
  /\ UNCHANGED beyondIngest

\* Process p is killed while one of its runs holds the lock or is writing
\* the marker: no finally block runs.
Crash(p) ==
  /\ alive[p]
  /\ Cardinality({q \in Pids : ~alive[q]}) < MaxCrashes
  /\ \E r \in Runs : pid[r] = p /\ (holding[r] \/ pc[r] = "write")
  /\ alive' = [alive EXCEPT ![p] = FALSE]
  /\ pc' = [r \in Runs |->
        IF pid[r] = p /\ pc[r] # "done" THEN "dead" ELSE pc[r]]
  /\ holding' = [r \in Runs |-> holding[r] /\ pid[r] # p]
  /\ fd' = [r \in Runs |-> IF pid[r] = p THEN 0 ELSE fd[r]]
  /\ UNCHANGED <<lockFile, now, ticks, storeVars, pid, saw, raw, content,
                 outcome, acquired, wrote, ghostVars>>
  /\ UNCHANGED beyondIngest

Next ==
  \/ \E r \in Runs :
       \/ Start(r)
       \/ LockExists(r)
       \/ LockRead(r)
       \/ LockUnlink(r)
       \/ LockOpen(r)
       \/ LockWrite(r)
       \/ UrlDedup(r)
       \/ ExtractFail(r)
       \/ Extract(r)
       \/ EmbedFail(r)
       \/ Embed(r)
       \/ Release(r)
  \/ Delete
  \/ Tick
  \/ \E p \in Pids : Crash(p)

Spec == Init /\ [][Next]_vars

Done(r) == pc[r] = "done"

\* ------------------------------------------------------ embedding gateway
\* Texts are numbered; a call embeds one of these arrays. LongInput needs
\* MaxBatches batches.
LongInput == [i \in 1..((MaxBatches - 1) * BATCH_SIZE + 1) |-> i]
TextInputs == {<<>>, <<1>>, <<2, 1>>, <<1, 1>>, LongInput}

\* CACHE_MAX texts no other input holds.
FillInput == [i \in 1..CACHE_MAX |-> CACHE_MAX + i]

\* LRUCache: the Map as the sequence of its entries in insertion order.
CacheHas(c, k) == \E i \in 1..Len(c) : c[i].key = k
CacheIndex(c, k) == CHOOSE i \in 1..Len(c) : c[i].key = k
CacheDelete(c, i) == SubSeq(c, 1, i - 1) \o SubSeq(c, i + 1, Len(c))

\* A cache whose get never finds anything.
CacheGetNothing(c, k) == [hit |-> FALSE, val |-> NoEntry, map |-> c]

\* get(key): the value (or none), the entry moved to the newest place.
CacheGet(c, k) ==
  IF ~CacheHas(c, k) THEN [hit |-> FALSE, val |-> NoEntry, map |-> c]
  ELSE LET i == CacheIndex(c, k)
       IN  [hit |-> TRUE, val |-> c[i].val,
            map |-> Append(CacheDelete(c, i), c[i])]

\* A set that overwrites the entry of a key it holds where it is.
CacheSetInPlace(c, k, v) ==
  IF CacheHas(c, k)
  THEN [c EXCEPT ![CacheIndex(c, k)] = [key |-> k, val |-> v]]
  ELSE Append(IF Len(c) >= CACHE_MAX THEN Tail(c) ELSE c,
              [key |-> k, val |-> v])

\* set(key, val): replaces the key's entry, or drops the oldest entry when the
\* Map is full; the entry goes to the newest place.
CacheSet(c, k, v) ==
  LET kept == IF CacheHas(c, k) THEN CacheDelete(c, CacheIndex(c, k))
              ELSE IF Len(c) >= CACHE_MAX THEN Tail(c)
              ELSE c
  IN  Append(kept, [key |-> k, val |-> v])

\* embedTexts, the cache lookup loop from text i on: st is the Map, the
\* results array and uncachedIdx so far.
RECURSIVE CacheLookup(_, _, _)
CacheLookup(ts, i, st) ==
  IF i > Len(ts) THEN st
  ELSE LET got == CacheGet(st.map, ts[i])
       IN  CacheLookup(ts, i + 1,
             [map |-> got.map,
              results |-> Append(st.results, got.val),
              uncachedIdx |-> IF got.hit THEN st.uncachedIdx
                              ELSE Append(st.uncachedIdx, i)])

\* uncached.slice(b, b + BATCH_SIZE) and uncachedIdx.slice(b, b + BATCH_SIZE)
BatchIdxs == SubSeq(uncachedIdx, b + 1, Min(b + BATCH_SIZE, Len(uncachedIdx)))

\* A batch sliced from texts instead of uncached.
BatchOfTexts == [j \in 1..Len(BatchIdxs) |-> texts[b + j]]

Batch == [j \in 1..Len(BatchIdxs) |-> texts[BatchIdxs[j]]]

\* What embedGemini / embedOpenAI returns for a batch its API answered.
ProviderResult(p, batch) ==
  [embeddings |-> [j \in 1..Len(batch) |-> Vec(batch[j], p)],
   dim |-> DimOf(p), provider |-> p, model |-> ModelOf(p)]

\* A StoreBatch that fills the results array and leaves the Map alone, as
\* an embedTexts that cached a call's results only when the call returned.
RECURSIVE StoreBatchResultsOnly(_, _, _, _, _)
StoreBatchResultsOnly(result, batch, idxs, j, st) ==
  IF j > Len(batch) THEN st
  ELSE LET entry == [embedding |-> result.embeddings[j], dim |-> result.dim,
                     provider |-> result.provider, model |-> result.model]
       IN  StoreBatchResultsOnly(result, batch, idxs, j + 1,
             [map |-> st.map,
              results |-> [st.results EXCEPT ![idxs[j]] = entry]])

\* embedTexts, the loop storing a batch's result from its j-th text on: st is
\* the Map and the results array.
RECURSIVE StoreBatch(_, _, _, _, _)
StoreBatch(result, batch, idxs, j, st) ==
  IF j > Len(batch) THEN st
  ELSE LET entry == [embedding |-> result.embeddings[j], dim |-> result.dim,
                     provider |-> result.provider, model |-> result.model]
       IN  StoreBatch(result, batch, idxs, j + 1,
             [map |-> CacheSet(st.map, batch[j], entry),
              results |-> [st.results EXCEPT ![idxs[j]] = entry]])

\* The object embedTexts returns.
EmbedReturn(rs, d, p, m) ==
  [embeddings |-> [i \in 1..Len(rs) |-> rs[i].embedding],
   dim |-> d, provider |-> p, model |-> m]

\* The texts of map c, and the entries of e, those marked whose text c has
\* not held ever since.
CacheKeys(c) == {c[i].key : i \in 1..Len(c)}
StillCached(e, c) ==
  LET cached == CacheKeys(c)
  IN  {[x EXCEPT !.held = x.held /\ x.text \in cached] : x \in e}

\* embedTexts(ts) from its first line to its first await: the cache lookup; it
\* returns when every text was cached (reading results[0], which throws a
\* TypeError when ts is empty), and goes on to the first batch otherwise.
EmbedTextsBegin(ts) ==
  LET st == CacheLookup(ts, 1,
              [map |-> cache, results |-> <<>>, uncachedIdx |-> <<>>])
  IN  /\ epc = "idle"
      /\ calls' = calls + 1
      /\ cachedAtCall' = CacheKeys(cache)
      /\ texts' = ts
      /\ cache' = st.map
      /\ results' = st.results
      /\ uncachedIdx' = st.uncachedIdx
      /\ IF Len(st.uncachedIdx) > 0
         THEN /\ epc' = "gemini"
              /\ UNCHANGED <<ret, error>>
         ELSE IF Len(ts) = 0
         THEN /\ epc' = "thrown"
              /\ error' = TypeError
              /\ UNCHANGED ret
         ELSE /\ epc' = "returned"
              /\ ret' = EmbedReturn(st.results, st.results[1].dim,
                                    st.results[1].provider,
                                    st.results[1].model)
              /\ UNCHANGED error
      /\ UNCHANGED <<keys, b, attempt, provider, model, dim, sent, embedded, failed>>

\* Some caller calls embedTexts(ts).
EmbedTextsCall ==
  /\ calls < MaxCalls
  /\ \E ts \in TextInputs : EmbedTextsBegin(ts)
  /\ UNCHANGED beyondEmbed

\* The Map after cache.set of each text of ts with provider p's entry for it
\* (embedTexts lines 169-173 over every batch), for texts that differ from
\* each other and from the keys of c: each set appends an entry and, the Map
\* being full, drops the oldest first, so the newest CACHE_MAX entries stay.
KeepNewest(c) ==
  IF Len(c) > CACHE_MAX THEN SubSeq(c, Len(c) - CACHE_MAX + 1, Len(c)) ELSE c

CacheSetAll(c, ts, p) ==
  KeepNewest(c \o [i \in 1..Len(ts) |->
     [key |-> ts[i],
      val |-> [embedding |-> Vec(ts[i], p), dim |-> DimOf(p), provider |-> p,
               model |-> ModelOf(p)]]])

\* A whole embedTexts call, from call to return, of CACHE_MAX texts the cache
\* does not hold, every batch of which Gemini answers at the first attempt.
EmbedTextsFill ==
  /\ epc = "idle"
  /\ calls < MaxCalls
  /\ "google" \in keys
  /\ {FillInput[i] : i \in 1..Len(FillInput)} \cap CacheKeys(cache) = {}
  /\ calls' = calls + 1
  /\ cache' = CacheSetAll(cache, FillInput, "google")
  /\ embedded' = StillCached(embedded, cache') \cup
        {[text |-> FillInput[i], vec |-> Vec(FillInput[i], "google"),
          held |-> TRUE] : i \in 1..Len(FillInput)}
  /\ UNCHANGED <<keys, callVars, cachedAtCall, failed>>
  /\ UNCHANGED beyondEmbed

\* A BatchDone that goes on to the next batch without the delay.
BatchDoneNoDelay(p) ==
  LET result == ProviderResult(p, Batch)
      st == StoreBatch(result, Batch, BatchIdxs, 1,
                       [map |-> cache, results |-> results])
  IN  /\ provider' = result.provider
      /\ model' = result.model
      /\ dim' = result.dim
      /\ cache' = st.map
      /\ embedded' = StillCached(embedded, st.map)
      /\ results' = st.results
      /\ attempt' = 0
      /\ IF b + BATCH_SIZE < Len(uncachedIdx)
         THEN /\ epc' = "gemini"
              /\ UNCHANGED ret
         ELSE /\ epc' = "returned"
              /\ ret' = EmbedReturn(st.results, result.dim, result.provider,
                                    result.model)
      /\ b' = IF b + BATCH_SIZE < Len(uncachedIdx) THEN b + BATCH_SIZE ELSE b
      /\ UNCHANGED <<keys, calls, texts, uncachedIdx, error, cachedAtCall, failed>>
      /\ UNCHANGED beyondEmbed

\* The batch was answered by provider p: lines 165-178 of embedTexts, and its
\* return after the last batch.
BatchDone(p) ==
  LET result == ProviderResult(p, Batch)
      st == StoreBatch(result, Batch, BatchIdxs, 1,
                       [map |-> cache, results |-> results])
  IN  /\ provider' = result.provider
      /\ model' = result.model
      /\ dim' = result.dim
      /\ cache' = st.map
      /\ embedded' = StillCached(embedded, st.map)
      /\ results' = st.results
      /\ attempt' = 0
      /\ IF b + BATCH_SIZE < Len(uncachedIdx)
         THEN /\ epc' = "delay"
              /\ UNCHANGED ret
         ELSE /\ epc' = "returned"
              /\ ret' = EmbedReturn(st.results, result.dim, result.provider,
                                    result.model)
      /\ UNCHANGED <<keys, calls, texts, uncachedIdx, b, error, cachedAtCall, failed>>
      /\ UNCHANGED beyondEmbed

\* The message of the error embedGemini threw for the current batch, and of
\* the one embedOpenAI throws.
GeminiErr ==
  IF "google" \in keys THEN "Gemini API" ELSE "GEMINI_API_KEY not set"
OpenAIErr ==
  IF "openai" \in keys THEN "OpenAI API" ELSE "OPENAI_API_KEY not set"

\* embedGemini: GEMINI_API_KEY is not set; embedTexts turns to embedOpenAI.
GeminiNoKey ==
  /\ epc = "gemini"
  /\ "google" \notin keys
  /\ epc' = "openai"
  /\ UNCHANGED <<keys, cache, calls, texts, results, uncachedIdx, b, attempt,
                 provider, model, dim, ret, error, sent>>
  /\ UNCHANGED ghostEmbed
  /\ UNCHANGED beyondEmbed

\* A GeminiFail without retry: the first failed fetch turns to embedOpenAI.
GeminiFailNoRetry ==
  /\ epc = "gemini"
  /\ "google" \in keys
  /\ sent' = Append(sent, [provider |-> "google", batch |-> Batch,
                            answered |-> FALSE])
  /\ epc' = "openai"
  /\ attempt' = 0
  /\ UNCHANGED <<keys, cache, calls, texts, results, uncachedIdx, b, provider,
                 model, dim, ret, error>>
  /\ UNCHANGED ghostEmbed
  /\ UNCHANGED beyondEmbed

\* embedGemini: a fetch fails; retry runs it again, and gives up after
\* RETRY_ATTEMPTS, where embedTexts turns to embedOpenAI.
GeminiFail ==
  /\ epc = "gemini"
  /\ "google" \in keys
  /\ sent' = Append(sent, [provider |-> "google", batch |-> Batch,
                            answered |-> FALSE])
  /\ IF attempt + 1 = RETRY_ATTEMPTS
     THEN /\ epc' = "openai"
          /\ attempt' = 0
     ELSE /\ attempt' = attempt + 1
          /\ UNCHANGED epc
  /\ UNCHANGED <<keys, cache, calls, texts, results, uncachedIdx, b, provider,
                 model, dim, ret, error>>
  /\ UNCHANGED ghostEmbed
  /\ UNCHANGED beyondEmbed

\* embedGemini: a fetch is answered.
GeminiOk ==
  /\ epc = "gemini"
  /\ "google" \in keys
  /\ sent' = Append(sent, [provider |-> "google", batch |-> Batch,
                            answered |-> TRUE])
  /\ BatchDone("google")

\* embedOpenAI: OPENAI_API_KEY is not set; embedTexts throws.
OpenAINoKey ==
  /\ epc = "openai"
  /\ "openai" \notin keys
  /\ epc' = "thrown"
  /\ error' = EmbeddingFailed(GeminiErr, OpenAIErr)
  /\ UNCHANGED <<keys, cache, calls, texts, results, uncachedIdx, b, attempt,
                 provider, model, dim, ret, sent>>
  /\ UNCHANGED ghostEmbed
  /\ UNCHANGED beyondEmbed

\* OpenAIFail in an embedTexts that swallows the failure of both providers
\* and returns what the earlier batches gave.
OpenAIFailSwallowed ==
  /\ epc = "openai"
  /\ "openai" \in keys
  /\ sent' = Append(sent, [provider |-> "openai", batch |-> Batch,
                            answered |-> FALSE])
  /\ IF attempt + 1 = RETRY_ATTEMPTS
     THEN /\ epc' = "returned"
          /\ ret' = EmbedReturn(results, dim, provider, model)
          /\ attempt' = 0
     ELSE /\ attempt' = attempt + 1
          /\ UNCHANGED <<epc, ret>>
  /\ UNCHANGED <<keys, cache, calls, texts, results, uncachedIdx, b, provider,
                 model, dim, error>>
  /\ UNCHANGED ghostEmbed
  /\ UNCHANGED beyondEmbed

\* embedOpenAI: a fetch fails; after RETRY_ATTEMPTS embedTexts throws.
OpenAIFail ==
  /\ epc = "openai"
  /\ "openai" \in keys
  /\ sent' = Append(sent, [provider |-> "openai", batch |-> Batch,
                            answered |-> FALSE])
  /\ IF attempt + 1 = RETRY_ATTEMPTS
     THEN /\ epc' = "thrown"
          /\ error' = EmbeddingFailed(GeminiErr, OpenAIErr)
          /\ attempt' = 0
     ELSE /\ attempt' = attempt + 1
          /\ UNCHANGED <<epc, error>>
  /\ UNCHANGED <<keys, cache, calls, texts, results, uncachedIdx, b, provider,
                 model, dim, ret>>
  /\ UNCHANGED ghostEmbed
  /\ UNCHANGED beyondEmbed

\* embedOpenAI: a fetch is answered.
OpenAIOk ==
  /\ epc = "openai"
  /\ "openai" \in keys
  /\ sent' = Append(sent, [provider |-> "openai", batch |-> Batch,
                            answered |-> TRUE])
  /\ BatchDone("openai")

\* The delay between batches is over: the next batch.
BatchDelay ==
  /\ epc = "delay"
  /\ b' = b + BATCH_SIZE
  /\ epc' = "gemini"
  /\ UNCHANGED <<keys, cache, calls, texts, results, uncachedIdx, attempt,
                 provider, model, dim, ret, error, sent>>
  /\ UNCHANGED ghostEmbed
  /\ UNCHANGED beyondEmbed

\* What a call that returned has embedded: each text with its vector.
Embedded ==
  IF epc = "returned"
  THEN {[text |-> texts[i], vec |-> ret.embeddings[i], held |-> TRUE] :
          i \in 1..Len(texts)}
  ELSE {}

\* embedTexts has returned or thrown: its locals are gone.
EmbedTextsOver ==
  /\ epc \in {"returned", "thrown"}
  /\ embedded' = StillCached(
        {x \in embedded : \A y \in Embedded : y.text # x.text} \cup Embedded,
        cache)
  /\ epc' = "idle"
  /\ texts' = <<>>
  /\ results' = <<>>
  /\ uncachedIdx' = <<>>
  /\ b' = 0
  /\ attempt' = 0
  /\ provider' = Null
  /\ model' = Null
  /\ dim' = 0
  /\ ret' = NoReturn
  /\ error' = NoError
  /\ sent' = <<>>
  /\ failed' = IF epc = "thrown" /\ error # TypeError
                THEN [call |-> calls, texts |-> texts,
                      done |-> UNION {
                        {sent[k].batch[i] : i \in 1..Len(sent[k].batch)} :
                           k \in {j \in 1..Len(sent) : sent[j].answered}}]
                ELSE failed
  /\ UNCHANGED <<keys, cache, calls, cachedAtCall>>

\* The caller has the result or the error; the next call may begin.
EmbedTextsEnd ==
  /\ EmbedTextsOver
  /\ UNCHANGED beyondEmbed

NextEmbed ==
  \/ EmbedTextsCall
  \/ EmbedTextsFill
  \/ GeminiNoKey
  \/ GeminiFail
  \/ GeminiOk
  \/ OpenAINoKey
  \/ OpenAIFail
  \/ OpenAIOk
  \/ BatchDelay
  \/ EmbedTextsEnd

\* Processes with both, one or none of the API keys set.
InitEmbed ==
  /\ IngestInit
  /\ GatewayInit
  /\ QueryInit
  /\ UrlInit
  /\ keys \in SUBSET Providers

SpecEmbed == InitEmbed /\ [][NextEmbed]_vars

\* ------------------------------------------------------------ the LRUCache
\* get and set called one at a time on the cache of a process that has
\* embedded CACHE_MAX - 2 texts, MaxOps more operations being made.
MaxOps == 4
Prefill == CACHE_MAX - 2

CacheEntry(k) ==
  [key |-> k,
   val |-> [embedding |-> Vec(k, "google"), dim |-> DimOf("google"),
            provider |-> "google", model |-> ModelOf("google")]]

SetKeys == {1, 2, 3, FillInput[1]}
GetKeys == {1, FillInput[1], FillInput[2]}

\* cache.get(k)
LruGet(k) ==
  /\ ops < Prefill + MaxOps
  /\ cache' = CacheGet(cache, k).map
  /\ lastUse' = IF CacheGet(cache, k).hit
                THEN [lastUse EXCEPT ![k] = ops + 1] ELSE lastUse
  /\ ops' = ops + 1
  /\ UNCHANGED <<keys, calls, callVars, ghostEmbed>>
  /\ UNCHANGED <<ingestVars, queryVars>>
  /\ UNCHANGED <<upc, rawUrl, once, twice, stype, fpc, fin, fout>>

\* cache.set(k, entry)
LruSet(k) ==
  /\ ops < Prefill + MaxOps
  /\ cache' = CacheSet(cache, k, CacheEntry(k).val)
  /\ lastUse' = [lastUse EXCEPT ![k] = ops + 1]
  /\ ops' = ops + 1
  /\ UNCHANGED <<keys, calls, callVars, ghostEmbed>>
  /\ UNCHANGED <<ingestVars, queryVars>>
  /\ UNCHANGED <<upc, rawUrl, once, twice, stype, fpc, fin, fout>>

NextCache ==
  \/ \E k \in GetKeys : LruGet(k)
  \/ \E k \in SetKeys : LruSet(k)

InitCache ==
  /\ IngestInit
  /\ QueryInit
  /\ keys = Providers
  /\ calls = 0
  /\ NoCall
  /\ cachedAtCall = {}
  /\ embedded = {}
  /\ failed = NoFailure
  /\ upc = "idle"
  /\ rawUrl = NoUrl
  /\ once = NoUrl
  /\ twice = NoUrl
  /\ stype = Null
  /\ fpc = "idle"
  /\ fin = Null
  /\ fout = Null
  /\ cache = [i \in 1..Prefill |-> CacheEntry(FillInput[i])]
  /\ ops = Prefill
  /\ lastUse = [k \in SetKeys \cup GetKeys \cup {FillInput[i] : i \in 1..Prefill}
                  |-> IF k >= FillInput[1] /\ k <= FillInput[Prefill]
                      THEN k - CACHE_MAX ELSE 0]

SpecCache == InitCache /\ [][NextCache]_vars

\* ------------------------------------------- ingest through the gateway
\* One ingest call in a fresh process and data directory, its embedTexts call
\* taken step by step.

\* The chunks of content c as texts: texts are numbered, the chunks of
\* different contents differ.
ChunkTexts(c) == [i \in 1..Len(chunkText(c)) |-> 100 * c.text + i]

PipelineContents == {EmptyContent, ArticleContent, LongContent}

\* _ingest: await embedTexts(chunks)
IngestEmbedCall(r) ==
  /\ pc[r] = "embed"
  /\ CanStep(r)
  /\ EmbedTextsBegin(ChunkTexts(content[r]))
  /\ pc' = [pc EXCEPT ![r] = "embedding"]
  /\ UNCHANGED <<lockFile, envVars, storeVars, pid, fd, saw, raw, content, outcome,
                 holding, acquired, wrote, ghostVars>>
  /\ UNCHANGED <<queryVars, urlVars>>

\* embedTexts has returned: _ingest stores the Source and its Chunks with
\* the embeddings, dim and provider of the returned object, and returns.
IngestEmbedReturn(r) ==
  /\ pc[r] = "embedding"
  /\ epc = "returned"
  /\ CanStep(r)
  /\ Commit(r, content[r], ret)
  /\ EmbedTextsOver
  /\ UNCHANGED <<lockFile, envVars, pid, fd, saw, raw, content, holding, acquired,
                 ghostVars>>
  /\ UNCHANGED <<queryVars, urlVars>>

\* embedTexts has thrown: so does _ingest.
IngestEmbedThrow(r) ==
  /\ pc[r] = "embedding"
  /\ epc = "thrown"
  /\ CanStep(r)
  /\ outcome' = [outcome EXCEPT ![r] = "embed_error"]
  /\ pc' = [pc EXCEPT ![r] = OnThrow]
  /\ EmbedTextsOver
  /\ UNCHANGED <<lockFile, envVars, storeVars, pid, fd, saw, raw, content, holding,
                 acquired, wrote, ghostVars>>
  /\ UNCHANGED <<queryVars, urlVars>>

NextPipeline ==
  \/ Start(1)
  \/ LockExists(1)
  \/ LockOpen(1)
  \/ LockWrite(1)
  \/ UrlDedup(1)
  \/ ExtractFail(1)
  \/ ExtractOf(1, PipelineContents)
  \/ IngestEmbedCall(1)
  \/ GeminiNoKey
  \/ GeminiFail
  \/ GeminiOk
  \/ OpenAINoKey
  \/ OpenAIFail
  \/ OpenAIOk
  \/ BatchDelay
  \/ IngestEmbedReturn(1)
  \/ IngestEmbedThrow(1)
  \/ Release(1)

SpecPipeline == InitEmbed /\ [][NextPipeline]_vars

\* ---------------------------------------------- ingest of over-long content
\* Two runs whose extractors return texts longer than TRUNCATE_MAX that agree
\* on their first TRUNCATE_MAX characters and differ after them.
HugeContent(tail, more) ==
  Content(6, tail, <<TRUNCATE_MAX - 50000, 50000 + more>>, 1, 1, 0)

NextTruncate ==
  \/ \E r \in Runs :
       \/ Start(r)
       \/ LockExists(r)
       \/ LockOpen(r)
       \/ LockWrite(r)
       \/ UrlDedup(r)
       \/ EmbedFail(r)
       \/ Embed(r)
       \/ Release(r)
  \/ ExtractOf(1, {HugeContent(1, 10000), ArticleContent})
  \/ ExtractOf(2, {HugeContent(2, 20000), ShortContent})

SpecTruncate == Init /\ [][NextTruncate]_vars

\* ------------------------------------------------------------- retrieval
\* A query in a process of its own, while the store holds the Sources earlier
\* ingests left, kb delete may run, and an ingest of another process may hold
\* the lock.

\* A score: a number (the cosine scaled to an integer), or NaN.
Score(v) == [nan |-> FALSE, val |-> v]
NaN == [nan |-> TRUE, val |-> 0]

\* JavaScript's x > y and x >= y: false when either side is NaN.
Gt(x, y) == ~x.nan /\ ~y.nan /\ x.val > y.val
Geq(x, y) == ~x.nan /\ ~y.nan /\ x.val >= y.val

\* The cosines a question can have with a stored vector.
SimValues == {0, 1, 2}

\* cosineSimilarity(a, b) for a query vector of length alen and a stored
\* vector of length blen whose cosine is sim: the loop runs over a's indices,
\* so a shorter b is read beyond its end (undefined) and the sums are NaN.
cosineSimilarity(alen, blen, sim) == IF blen < alen THEN NaN ELSE Score(sim)

\* The n-th Source an earlier ingest stored, and its i-th Chunk with a vector
\* of length len and the dim and provider of provider p's result.
StoredContent(n) == Content(10 + n, 0, <<700, 300>>, 1, 1, 0)
StoredSource(n) ==
  [id |-> Uuid(10 + n, 0),
   url |-> Url("https", 0, "example.com", <<"s", <<"1", "2", "3">>[n]>>, 0,
               <<>>, FALSE),
   source_type |-> "article", raw_content |-> StoredContent(n),
   content_hash |-> contentHash(StoredContent(n))]
StoredChunk(n, i, len, p) ==
  [id |-> Uuid(10 + n, i), source_id |-> Uuid(10 + n, 0), chunk_index |-> i - 1,
   content |-> chunkText(StoredContent(n))[i], embedding |-> len,
   embedding_dim |-> DimOf(p), embedding_provider |-> p]

\* Three stored Sources of two chunks: one embedded by Gemini, one by OpenAI,
\* and one whose first chunk was embedded by Gemini and whose second by OpenAI
\* in one embedTexts call, which labelled both with OpenAI's dim.
StoredSources == {StoredSource(n) : n \in 1..3}
StoredChunks ==
  {StoredChunk(1, 1, DimOf("google"), "google"),
   StoredChunk(1, 2, DimOf("google"), "google"),
   StoredChunk(2, 1, DimOf("openai"), "openai"),
   StoredChunk(2, 2, DimOf("openai"), "openai"),
   StoredChunk(3, 1, DimOf("google"), "openai"),
   StoredChunk(3, 2, DimOf("openai"), "openai")}

Questions == {1}
TopKs == {0, 1, 2, TOPK_DEFAULT}

\* SELECT ... FROM chunks c JOIN sources s ON s.id = c.source_id
\* with no WHERE clause.
CandidatesOfAnyDim(d) ==
  {c \in chunks : \E s \in sources : s.id = c.source_id}

\* SELECT ... FROM chunks c JOIN sources s ON s.id = c.source_id
\* WHERE c.embedding_dim = d
Candidates(d) ==
  {c \in chunks : c.embedding_dim = d /\ \E s \in sources : s.id = c.source_id}

\* rows.map: each row with its score, sim giving the cosine of each row.
Scored(rows, alen, sim) ==
  {[chunk_id |-> c.id, source_id |-> c.source_id,
    embedding_dim |-> c.embedding_dim,
    score |-> cosineSimilarity(alen, c.embedding, sim[c.id])] : c \in rows}

\* The orders of the elements of S.
Orders(S) ==
  {o \in [1..Cardinality(S) -> S] :
     \A i, j \in 1..Cardinality(S) : o[i] = o[j] => i = j}

\* scored.sort((a, b) => b.score - a.score) on rows the SELECT returned in
\* an order SQL leaves open: an order of non-increasing score; with a NaN
\* score the comparator is not consistent and the order is
\* implementation-defined (ECMAScript, Array.prototype.sort).
SortOutcomes(S) ==
  {o \in Orders(S) :
     (\A x \in S : ~x.score.nan) =>
        \A i \in 1..(Cardinality(S) - 1) : o[i].score.val >= o[i + 1].score.val}

\* The loop over scored from its i-th element on: seen and results so far.
RECURSIVE Walk(_, _, _, _, _)
Walk(sorted, i, seen, rs, k) ==
  IF i > Len(sorted) THEN rs
  ELSE IF sorted[i].source_id \in seen THEN Walk(sorted, i + 1, seen, rs, k)
  ELSE LET pushed == Append(rs, sorted[i])
       IN  IF Len(pushed) >= k THEN pushed
           ELSE Walk(sorted, i + 1, seen \cup {sorted[i].source_id}, pushed, k)

\* query(q, k) is called: await embedQuery(q), which is embedTexts([q]).
QueryCall ==
  /\ qpc = "idle"
  /\ \E q \in Questions, k \in TopKs :
       /\ question' = q
       /\ topK' = k
       /\ EmbedTextsBegin(<<q>>)
  /\ qpc' = "embedding"
  /\ UNCHANGED <<qdim, scored, qresults>>
  /\ UNCHANGED <<ingestVars, urlVars>>

\* QueryDone in a query that takes the ingestion lock for its SELECT and
\* stops there.
QueryDoneLocked ==
  /\ qpc = "embedding"
  /\ epc = "returned"
  /\ lockFile.kind = "none"
  /\ lockFile' = Marker(NumProcs + 1, now, 0, 0)
  /\ qdim' = ret.dim
  /\ scored' = <<>>
  /\ qresults' = <<>>
  /\ qpc' = "done"
  /\ EmbedTextsOver
  /\ UNCHANGED <<question, topK, urlVars>>
  /\ UNCHANGED <<envVars, storeVars, runVars, ghostVars>>

\* embedQuery has returned: the SELECT, the scores, the sort, the walk that
\* keeps one chunk per Source up to the limit, and the return.
QueryDone ==
  /\ qpc = "embedding"
  /\ epc = "returned"
  /\ qdim' = ret.dim
  /\ LET rows == Candidates(ret.dim)
     IN  \E sim \in [{c.id : c \in rows} -> SimValues] :
           \E sorted \in SortOutcomes(Scored(rows, ret.embeddings[1].len, sim)) :
             /\ scored' = sorted
             /\ qresults' = IF rows = {} THEN <<>>
                            ELSE Walk(sorted, 1, {}, <<>>, topK)
  /\ qpc' = "done"
  /\ EmbedTextsOver
  /\ UNCHANGED <<question, topK>>
  /\ UNCHANGED <<ingestVars, urlVars>>

\* embedQuery has thrown: so does query.
QueryThrow ==
  /\ qpc = "embedding"
  /\ epc = "thrown"
  /\ qpc' = "failed"
  /\ EmbedTextsOver
  /\ UNCHANGED <<question, topK, qdim, scored, qresults>>
  /\ UNCHANGED <<ingestVars, urlVars>>

NextQuery ==
  \/ QueryCall
  \/ GeminiNoKey
  \/ GeminiFail
  \/ GeminiOk
  \/ OpenAINoKey
  \/ OpenAIFail
  \/ OpenAIOk
  \/ QueryDone
  \/ QueryThrow
  \/ Delete
  \/ ExtractFail(1)
  \/ Release(1)

\* The store holds some of the stored Sources, each with its Chunks; no
\* ingest is running, or run 1 holds the lock and awaits extractContent.
InitQuery ==
  /\ GatewayInit
  /\ QueryInit
  /\ UrlInit
  /\ keys \in SUBSET Providers
  /\ sources \in SUBSET StoredSources
  /\ chunks = {c \in StoredChunks : \E s \in sources : s.id = c.source_id}
  /\ now = 0
  /\ ticks = 0
  /\ alive = [p \in Pids |-> TRUE]
  /\ \E busy \in BOOLEAN :
       /\ lockFile = IF busy THEN Marker(1, 0, 1, 1) ELSE NoFile
       /\ pc = [r \in Runs |-> IF busy /\ r = 1 THEN "extract" ELSE "idle"]
       /\ pid = [r \in Runs |-> IF busy /\ r = 1 THEN 1 ELSE 0]
       /\ raw = [r \in Runs |-> IF busy /\ r = 1 THEN RawArticle ELSE NoUrl]
       /\ holding = [r \in Runs |-> busy /\ r = 1]
       /\ acquired = [r \in Runs |-> busy /\ r = 1]
       /\ before = [r \in Runs |->
             IF busy /\ r = 1 THEN {x.id : x \in sources} ELSE {}]
  /\ fd = [r \in Runs |-> 0]
  /\ saw = [r \in Runs |-> "unread"]
  /\ content = [r \in Runs |-> EmptyContent]
  /\ outcome = [r \in Runs |-> Null]
  /\ wrote = [r \in Runs |-> 0]
  /\ urlSeen = [r \in Runs |-> FALSE]
  /\ hashSeen = [r \in Runs |-> "no"]
  /\ extracted = [r \in Runs |-> "no"]

SpecQuery == InitQuery /\ [][NextQuery]_vars

\* ------------------------------------------------------ URL normalization
\* A caller that normalizes a URL string and then normalizes the result.

\* The strings normalizeUrl is given: http(s) and other schemes, hosts with up
\* to MaxWww "www." labels, paths with up to MaxSlashes extra trailing
\* slashes, tracking and other query keys, fragments.
NormInputs ==
  {Url(scheme, www, host, path, slashes, params, frag) :
     scheme \in {"https", "ftp"}, www \in 0..MaxWww,
     host \in {"example.com", "twitter.com"}, path \in {<<>>, <<"a">>},
     slashes \in 0..MaxSlashes,
     params \in {<<>>, <<"utm_source">>, <<"b", "a">>}, frag \in BOOLEAN}

\* once = normalizeUrl(rawUrl)
NormalizeOnce ==
  /\ upc = "idle"
  /\ once' = normalizeUrl(rawUrl)
  /\ upc' = "once"
  /\ UNCHANGED <<rawUrl, twice, stype, fnVars>>
  /\ UNCHANGED <<ingestVars, embedVars, queryVars>>

\* twice = normalizeUrl(once)
NormalizeTwice ==
  /\ upc = "once"
  /\ twice' = normalizeUrl(once)
  /\ upc' = "twice"
  /\ UNCHANGED <<rawUrl, once, stype, fnVars>>
  /\ UNCHANGED <<ingestVars, embedVars, queryVars>>

NextNormalize ==
  \/ NormalizeOnce
  \/ NormalizeTwice

InitNormalize ==
  /\ IngestInit
  /\ GatewayInit
  /\ QueryInit
  /\ keys = Providers
  /\ upc = "idle"
  /\ rawUrl \in NormInputs
  /\ once = NoUrl
  /\ twice = NoUrl
  /\ stype = Null
  /\ FnInit

SpecNormalize == InitNormalize /\ [][NextNormalize]_vars

\* ------------------------------------------------- source-type detection
\* The strings detectSourceType is given: the empty string, http(s) URLs,
\* URLs of other schemes and filesystem paths (scheme "none": no scheme, the
\* host being the first path segment), on the hosts and with the paths,
\* queries and fragments the three patterns look at.
EmptyUrl == Url("empty", 0, "", <<>>, 0, <<>>, FALSE)

DetectInputs ==
  {EmptyUrl} \cup
  {Url(scheme, www, host, path, slashes, params, frag) :
     scheme \in {"https", "ftp", "file", "none"}, www \in 0..1,
     host \in {"example.com", "x.com", "youtube.com"},
     path \in {<<"a">>, <<"a", "status", "1">>, <<"doc.pdf">>, <<"watch">>},
     slashes \in 0..1, params \in {<<>>, <<"v">>}, frag \in BOOLEAN}

\* stype = detectSourceType(rawUrl)
Detect ==
  /\ upc = "idle"
  /\ stype' = detectSourceType(rawUrl)
  /\ upc' = "detected"
  /\ UNCHANGED <<rawUrl, once, twice, fnVars>>
  /\ UNCHANGED <<ingestVars, embedVars, queryVars>>

NextDetect == Detect

InitDetect ==
  /\ IngestInit
  /\ GatewayInit
  /\ QueryInit
  /\ keys = Providers
  /\ upc = "idle"
  /\ rawUrl \in DetectInputs
  /\ once = NoUrl
  /\ twice = NoUrl
  /\ stype = Null
  /\ FnInit

SpecDetect == InitDetect /\ [][NextDetect]_vars

\* ---------------------------------------------------- content validation
ERROR_SIGNALS ==
  {"access denied", "captcha", "please enable javascript", "cloudflare",
   "404", "sign in", "blocked", "rate limit"}

\* A count of occurrences instead of signals.
HitsOfOccurrences(found) == Len(found)

\* ERROR_SIGNALS.filter(s => lower.includes(s)).length, of a content whose
\* lower-cased text holds the occurrences `found` of signals, in text order.
Hits(found) ==
  Cardinality({s \in ERROR_SIGNALS : \E i \in DOMAIN found : found[i] = s})

SourceTypes == {"text", "tweet", "video", "pdf", "article", "other"}

\* metadata = {} by default; has_transcript absent is falsy.
ValidateMetas == {[has_transcript |-> FALSE], [has_transcript |-> TRUE]}

\* Lengths on both sides of every threshold of validateContent.
ValidateLengths == {0, 19, 20, 199, 200, 499, 500}

\* Paragraph counts <<paragraphs, paragraphs over 80 characters>>: none (all
\* whitespace), no long one, all long, 1 of 7 (under 15%), 3 of 20 (15%).
ValidateParas == {<<0, 0>>, <<1, 0>>, <<1, 1>>, <<7, 1>>, <<20, 3>>}

ValidateFound ==
  {<<>>, <<"404">>, <<"404", "404">>, <<"404", "captcha">>,
   <<"access denied", "captcha", "cloudflare">>}

\* The paragraphs and the signal occurrences fit in a text of len characters.
Fits(len, ps, found) ==
  /\ ps[2] * 81 + (ps[1] - ps[2]) + 2 * (IF ps[1] > 0 THEN ps[1] - 1 ELSE 0)
       <= len
  /\ found # <<>> => ps[1] > 0 /\ len >= 19
  /\ len = 0 => ps[1] = 0

ValidateInputs ==
  {[content |-> Content(4, 0, IF len = 0 THEN <<>> ELSE <<len>>,
                        ps[1], ps[2], Hits(found)),
    found |-> found, sourceType |-> t, metadata |-> m] :
     len \in ValidateLengths, ps \in ValidateParas,
     found \in ValidateFound, t \in SourceTypes, m \in ValidateMetas}

\* fout = validateContent(content, sourceType, metadata)
Validate ==
  /\ fpc = "idle"
  /\ fout' = validateContent(fin.content, fin.sourceType, fin.metadata)
  /\ fpc' = "validated"
  /\ UNCHANGED <<fin, lruVars>>
  /\ UNCHANGED <<upc, rawUrl, once, twice, stype>>
  /\ UNCHANGED <<ingestVars, embedVars, queryVars>>

NextValidate == Validate

InitValidate ==
  /\ IngestInit
  /\ GatewayInit
  /\ QueryInit
  /\ keys = Providers
  /\ upc = "idle"
  /\ rawUrl = NoUrl
  /\ once = NoUrl
  /\ twice = NoUrl
  /\ stype = Null
  /\ fpc = "idle"
  /\ fin \in {i \in ValidateInputs :
               Fits(ContentLength(i.content), <<i.content.paras,
                    i.content.longParas>>, i.found)}
  /\ fout = Null
  /\ LruInit

SpecValidate == InitValidate /\ [][NextValidate]_vars

\* ---------------------------------------------------------------- chunking
\* texts[i].slice(0, MAX_INPUT): what embedGemini and embedOpenAI send of a
\* text.
MAX_INPUT == 8000

\* Sentence lengths: a short sentence, one under and one over MIN_CHUNK, one
\* that fills most of a chunk, one that alone is over CHUNK_SIZE, and one
\* (a transcript without punctuation) over MAX_INPUT.
SentenceLengths ==
  {6, MIN_CHUNK - 40, MIN_CHUNK + 5, CHUNK_SIZE - 100, CHUNK_SIZE + 1,
   MAX_INPUT + 1}

MaxSentences == 3

\* Leading whitespace: none, two blank lines, a page of blanks.
LeadLengths == {0, 2, MIN_CHUNK - 1}

ChunkInputs ==
  {Padded(Content(5, 0, sents, 1, 1, 0), n) :
     sents \in UNION {[1..k -> SentenceLengths] : k \in 1..MaxSentences},
     n \in LeadLengths}

\* fout = chunkText(fin)
Chunk ==
  /\ fpc = "idle"
  /\ fout' = chunkText(fin)
  /\ fpc' = "chunked"
  /\ UNCHANGED <<fin, lruVars>>
  /\ UNCHANGED <<upc, rawUrl, once, twice, stype>>
  /\ UNCHANGED <<ingestVars, embedVars, queryVars>>

NextChunk == Chunk

InitChunk ==
  /\ IngestInit
  /\ GatewayInit
  /\ QueryInit
  /\ keys = Providers
  /\ upc = "idle"
  /\ rawUrl = NoUrl
  /\ once = NoUrl
  /\ twice = NoUrl
  /\ stype = Null
  /\ fpc = "idle"
  /\ fin \in ChunkInputs
  /\ fout = Null
  /\ LruInit

SpecChunk == InitChunk /\ [][NextChunk]_vars


\* ---------------------------------------------------------------- claims

\* C1: under every interleaving of processes or overlapping calls invoking
\* ingest, at most one run is between its successful acquireLock and its
\* own release.
C1_MutualExclusion == Cardinality({r \in Runs : holding[r]}) <= 1

\* C2: in every reachable store state no two Source rows have the same
\* (non-null) URL.
C2_UniqueUrl ==
  \A s1 \in sources, s2 \in sources : s1 # s2 => s1.url # s2.url

\* C3: in every reachable store state no two Source rows have the same
\* non-null content hash, and a Source has the null hash exactly when its
\* content is empty.
C3_UniqueHash ==
  /\ \A s1 \in sources, s2 \in sources :
       s1 # s2 /\ s1.content_hash # NullHash
         => s1.content_hash # s2.content_hash
  /\ \A s \in sources :
       (s.content_hash = NullHash) <=> (ContentLength(s.raw_content) = 0)

\* Two Sources with content are stored, and two without.
C3_Witness ==
  \/ \E s1 \in sources, s2 \in sources :
       s1 # s2 /\ s1.content_hash # NullHash /\ s2.content_hash # NullHash
  \/ \E s1 \in sources, s2 \in sources :
       s1 # s2 /\ s1.content_hash = NullHash /\ s2.content_hash = NullHash

\* C4: a run that got the lock while a Source with its normalized URL was
\* stored, and stayed stored, returns duplicate_url and adds no row.
C4_DuplicateUrl ==
  \A r \in Runs :
    Done(r) /\ acquired[r] /\ urlSeen[r]
      => outcome[r] = "duplicate_url" /\ wrote[r] = 0

\* A run returned ok and a later run of another raw URL with the same
\* normalized form returned duplicate_url.
C4_Witness ==
  \E r1 \in Runs, r2 \in Runs :
    /\ Done(r1) /\ outcome[r1] = "ok"
    /\ Done(r2) /\ urlSeen[r2] /\ outcome[r2] = "duplicate_url"
    /\ raw[r1] # raw[r2]
    /\ normalizeUrl(raw[r1]) = normalizeUrl(raw[r2])

\* C5 as claimed: a run that extracted content whose hash a Source of another
\* URL, stored before the run began, held returns duplicate_content and adds
\* no row.
C5_DuplicateContent ==
  \A r \in Runs :
    Done(r) /\ hashSeen[r] # "no"
      => outcome[r] = "duplicate_content" /\ wrote[r] = 0

\* C5 amended: such a run adds no row, and returns duplicate_content when the
\* content is valid for its own source type, invalid when it is not.
C5_DuplicateContentIfValid ==
  \A r \in Runs :
    Done(r) /\ hashSeen[r] # "no"
      => /\ wrote[r] = 0
         /\ outcome[r] =
              IF hashSeen[r] = "valid" THEN "duplicate_content" ELSE "invalid"

\* A run returned ok and a later run of another URL extracted the same
\* content, valid for its source type, and returned duplicate_content.
C5_Witness ==
  \E r1 \in Runs, r2 \in Runs :
    /\ Done(r1) /\ outcome[r1] = "ok"
    /\ Done(r2) /\ hashSeen[r2] = "valid" /\ outcome[r2] = "duplicate_content"
    /\ normalizeUrl(raw[r1]) # normalizeUrl(raw[r2])

\* C6: a run that fails at the Embed step or during Commit leaves no row of
\* its own, and every stored Source has all of its Chunk rows: the Source
\* and its N Chunks are written together or not at all.
C6_AtomicWrite ==
  /\ \A r \in Runs :
       outcome[r] \in {"embed_error", "commit_error"} => wrote[r] = 0
  /\ \A r \in Runs :
       wrote[r] \in {0, 1 + Len(chunkText(content[r]))}
  /\ \A s \in sources :
       Cardinality({c \in chunks : c.source_id = s.id})
         = Len(chunkText(s.raw_content))

\* A transaction writing a Source and two Chunks failed at its last statement.
C6_Witness ==
  \E r \in Runs :
    /\ Done(r) /\ outcome[r] = "commit_error" /\ wrote[r] = 0
    /\ Len(chunkText(content[r])) = 2
    /\ sources = {} /\ chunks = {}

\* C7: every run that acquired the lock has released it when control is back
\* with the caller, whatever the outcome or exception.
C7_ReleasedOnExit ==
  \A r \in Runs :
    Done(r) /\ acquired[r]
      => ~holding[r] /\ ~(lockFile.kind = "marker" /\ lockFile.run = r)

\* A run that acquired the lock ended by an exception.
C7_Witness ==
  \E r \in Runs : Done(r) /\ acquired[r] /\ outcome[r] \in Thrown

C9_TakeoverSucceeds ==
  \A r \in Runs :
    saw[r] \in {"abandoned", "corrupt"} /\ Done(r) => acquired[r]
\* C10: every vector an embedTexts call returns was produced by the provider
\* the call returns and has the length dim the call returns.
C10_UniformVectors ==
  epc = "returned"
    => \A i \in 1..Len(ret.embeddings) :
         /\ ret.embeddings[i].provider = ret.provider
         /\ ret.embeddings[i].len = ret.dim
\* C11: in every reachable store state, every stored Chunk's embedding vector
\* has the length the dim column of its row records.
C11_VectorLengthIsDim == \A c \in chunks : c.embedding = c.embedding_dim

\* The requests k of the call in progress that went to provider p with this
\* batch and were not answered.
FailedRequests(p, batch, upTo) ==
  {k \in 1..upTo : /\ sent[k].provider = p
                   /\ sent[k].batch = batch
                   /\ ~sent[k].answered}

\* C12: when the primary provider has failed on every attempt for a batch,
\* the secondary provider is called with the identical batch (every request to
\* the secondary follows RETRY_ATTEMPTS failed requests to the primary that
\* carried the same texts in the same order, or the primary's key is not
\* set); when the secondary has failed on every attempt too, embedTexts has
\* thrown one error with both providers' messages and has returned nothing.
C12_FallbackThenFail ==
  /\ epc = "openai" /\ "google" \in keys =>
        Cardinality(FailedRequests("google", Batch, Len(sent))) >= RETRY_ATTEMPTS
  /\ \A k \in 1..Len(sent) :
        sent[k].provider = "openai" /\ "google" \in keys =>
          Cardinality(FailedRequests("google", sent[k].batch, k - 1))
            >= RETRY_ATTEMPTS
  /\ \A k \in 1..Len(sent) :
        Cardinality(FailedRequests("openai", sent[k].batch, Len(sent)))
            >= RETRY_ATTEMPTS =>
          /\ epc = "thrown"
          /\ error = EmbeddingFailed(GeminiErr, "OpenAI API")
  /\ epc = "thrown" => ret = NoReturn
  /\ epc = "returned" => error = NoError

\* Both providers have failed on the second batch of a call whose first batch
\* was embedded.
C12_Witness ==
  /\ epc = "thrown"
  /\ b > 0
  /\ \E i \in 1..Len(results) : results[i] # NoEntry
  /\ Cardinality(FailedRequests("google", Batch, Len(sent))) = RETRY_ATTEMPTS
  /\ Cardinality(FailedRequests("openai", Batch, Len(sent))) = RETRY_ATTEMPTS

\* The call in progress has sent text t to a provider.
Requested(t) ==
  \E k \in 1..Len(sent) : \E j \in 1..Len(sent[k].batch) : sent[k].batch[j] = t

\* C13: a text that an earlier call of the process embedded and returned is a
\* cache hit in every later call: no request of the later call carries the
\* text, and the vector returned for it is the one returned before.
C13_SecondTimeIsHit ==
  \A i \in 1..Len(texts) : \A x \in embedded :
    x.text = texts[i] =>
      /\ ~Requested(texts[i])
      /\ epc = "returned" => ret.embeddings[i] = x.vec

\* C13 (amended): a text that an earlier call of the process embedded and
\* returned, and that the cache has held ever since, is a cache hit in every
\* later call: no request of the later call carries the text, and the vector
\* returned for it is the one returned before.
C13_HitWhileCached ==
  \A i \in 1..Len(texts) : \A x \in embedded :
    x.text = texts[i] /\ x.held =>
      /\ ~Requested(texts[i])
      /\ epc = "returned" => ret.embeddings[i] = x.vec

\* A call has returned a text embedded before and still cached next to a
\* text it had to request.
C13_Witness ==
  /\ epc = "returned"
  /\ sent # <<>>
  /\ \E i \in 1..Len(texts) : \E x \in embedded :
       x.text = texts[i] /\ x.held /\ ret.embeddings[i] = x.vec

\* The texts of ts that are not in the set cached, in the order of ts.
RECURSIVE Uncached(_, _)
Uncached(ts, cached) ==
  IF ts = <<>> THEN <<>>
  ELSE (IF Head(ts) \in cached THEN <<>> ELSE <<Head(ts)>>)
         \o Uncached(Tail(ts), cached)

\* The batches of the first upTo requests that were answered, one after the
\* other.
RECURSIVE Answered(_)
Answered(upTo) ==
  IF upTo = 0 THEN <<>>
  ELSE Answered(upTo - 1)
         \o (IF sent[upTo].answered THEN sent[upTo].batch ELSE <<>>)

IsPrefix(s, t) == Len(s) <= Len(t) /\ s = SubSeq(t, 1, Len(s))

\* C14: an embedTexts call sends exactly the texts the cache did not hold
\* when it began, in their input order (every request carries the next texts
\* after those already answered, and a call that returns has had all of them
\* answered, each once), and for every index i the returned embeddings[i] is
\* the vector of texts[i].
C14_OnlyUncachedInOrder ==
  /\ \A k \in 1..Len(sent) :
        IsPrefix(Answered(k - 1) \o sent[k].batch, Uncached(texts, cachedAtCall))
  /\ epc = "returned" =>
        /\ Answered(Len(sent)) = Uncached(texts, cachedAtCall)
        /\ Len(ret.embeddings) = Len(texts)
        /\ \A i \in 1..Len(texts) : ret.embeddings[i].text = texts[i]

\* A call has returned that began with its first text cached and later ones
\* not.
C14_Witness ==
  /\ epc = "returned"
  /\ sent # <<>>
  /\ Len(texts) > 1
  /\ texts[1] \in cachedAtCall
  /\ \E i \in 1..Len(texts) : texts[i] \notin cachedAtCall

\* C15: the results of query never hold two entries of the same Source, and
\* the entry kept for a Source is its highest-scoring candidate: no scored
\* chunk of that Source has a greater score.
C15_OnePerSourceBest ==
  qpc = "done" =>
    /\ \A i, j \in 1..Len(qresults) :
          qresults[i].source_id = qresults[j].source_id => i = j
    /\ \A i \in 1..Len(qresults) : \A j \in 1..Len(scored) :
          scored[j].source_id = qresults[i].source_id =>
            ~Gt(scored[j].score, qresults[i].score)

\* C16: the results of query are in non-increasing order of score: of two
\* adjacent results the earlier's score is greater than or equal to the
\* later's.
C16_NonIncreasing ==
  qpc = "done" =>
    \A i \in 1..(Len(qresults) - 1) :
      Geq(qresults[i].score, qresults[i + 1].score)

\* The Sources among the candidates of the query that returned.
CandidateSources == {scored[j].source_id : j \in 1..Len(scored)}

\* C17: query(question, limit) returns exactly min(limit, number of distinct
\* Sources among the candidates) results, so never more than limit, limit 0
\* included.
C17_ExactlyMinOfLimit ==
  qpc = "done" => Len(qresults) = Min(topK, Cardinality(CandidateSources))

\* C18: query scores and returns only Chunks whose recorded dim is the dim of
\* the query embedding.
C18_SameDimOnly ==
  qpc = "done" =>
    /\ \A j \in 1..Len(scored) : scored[j].embedding_dim = qdim
    /\ \A i \in 1..Len(qresults) : qresults[i].embedding_dim = qdim

\* A query has returned results while the store held Chunks of another dim.
C18_Witness ==
  /\ qpc = "done"
  /\ qresults # <<>>
  /\ \E c \in chunks : c.embedding_dim # qdim

\* C19: no step of query creates, changes or deletes a Source or Chunk row or
\* touches the lock marker, and a query fails only when embedQuery throws,
\* whoever holds the lock.
C19_ReadOnlyNoLock ==
  [][qpc' # qpc =>
       /\ sources' = sources
       /\ chunks' = chunks
       /\ lockFile' = lockFile
       /\ qpc' = "failed" => epc = "thrown"]_vars

\* A query has returned results while a live ingest run held the lock.
C19_Witness ==
  /\ qpc = "done"
  /\ qresults # <<>>
  /\ lockFile.kind = "marker"
  /\ \E r \in Runs : holding[r] /\ alive[pid[r]] /\ lockFile.run = r

\* C20: normalizeUrl is idempotent: normalizing the result of normalizeUrl
\* gives that result again, for every input string, hosts with repeated
\* "www." labels and paths with several trailing slashes included.
C20_Idempotent == upc = "twice" => twice = once

\* C21: detectSourceType returns 'other' for every non-empty input that does
\* not start with http:// or https://, whatever its path or extension.
C21_OtherUnlessHttp ==
  upc = "detected" /\ rawUrl # EmptyUrl /\ ~IsHttp(rawUrl) => stype = "other"

\* C21 (amended): detectSourceType returns 'other' for every non-empty input
\* that does not start with http:// or https:// and does not end in .pdf or
\* in .pdf followed by a query; for one that does, it returns 'pdf'.
C21_OtherUnlessHttpOrPdf ==
  upc = "detected" /\ rawUrl # EmptyUrl /\ ~IsHttp(rawUrl) =>
    stype = IF PDF_RE(rawUrl) THEN "pdf" ELSE "other"

\* An ftp URL of a tweet-like path on x.com has been classified.
C21_Witness ==
  /\ upc = "detected"
  /\ rawUrl.scheme = "ftp"
  /\ rawUrl.host = "x.com"
  /\ rawUrl.path = <<"a", "status", "1">>
  /\ stype = "other"

\* C22: content absent or shorter than 20 characters is invalid for every
\* source type; for every type but tweet, content shorter than 500 characters
\* is invalid, the minimum being 200 for a video whose metadata marks a
\* transcript as present, and content of the minimum length or more is not
\* rejected for its length; a tweet of 20 or more characters is never
\* rejected for length or prose ratio.
C22_LengthRules ==
  fpc = "validated" =>
    LET len == ContentLength(fin.content)
        min == IF fin.sourceType = "video" /\ fin.metadata.has_transcript
               THEN 200 ELSE 500
        lengthReasons == {"too_short_20", "too_short_type"}
    IN  /\ len < 20 => ~fout.valid
        /\ fin.sourceType # "tweet" /\ len < min =>
             ~fout.valid /\ fout.reason \in lengthReasons
        /\ fin.sourceType # "tweet" /\ len >= min =>
             fout.reason \notin lengthReasons
        /\ fin.sourceType = "tweet" /\ len >= 20 =>
             fout.reason \notin lengthReasons \cup {"low_prose"}

\* A video with a transcript and 200 characters of prose has been accepted.
C22_Witness ==
  /\ fpc = "validated"
  /\ fout.valid
  /\ fin.sourceType = "video"
  /\ fin.metadata.has_transcript
  /\ ContentLength(fin.content) = 200

\* C23: content in which two or more distinct signals of the error-page set
\* occur is invalid, for every source type and however valid it otherwise
\* is; content in which at most one signal occurs, even more than once, is
\* never rejected as an error page.
C23_TwoSignalsReject ==
  fpc = "validated" =>
    LET two == \E i, j \in DOMAIN fin.found : fin.found[i] # fin.found[j]
    IN  /\ two => ~fout.valid
        /\ ~two => fout.reason # "error_page"
        /\ two /\ validateContent([fin.content EXCEPT !.hits = 0],
                                  fin.sourceType, fin.metadata).valid =>
             fout.reason = "error_page"

\* Content valid but for its two signals has been rejected as an error page.
C23_Witness ==
  /\ fpc = "validated"
  /\ fin.found = <<"404", "captcha">>
  /\ ContentLength(fin.content) = 500
  /\ fin.sourceType = "article"
  /\ fout = [valid |-> FALSE, reason |-> "error_page"]

\* The Sources and Chunks run r has stored.
SourcesOf(r) == {s \in sources : s.id = Uuid(r, 0)}
ChunksOf(r) == {c \in chunks : c.source_id = Uuid(r, 0)}

\* C24: when extraction returns empty content, the run ends with
\* pending_transcript: exactly one Source row is stored, with a null content
\* hash, and no Chunk row, and embedTexts is never called in that run.
C24_EmptyIsPending ==
  \A r \in Runs :
    extracted[r] = "empty" /\ pc[r] \in {"release", "done"} =>
      /\ outcome[r] = "pending_transcript"
      /\ Cardinality(SourcesOf(r)) = 1
      /\ \A s \in SourcesOf(r) : s.content_hash = NullHash
      /\ ChunksOf(r) = {}
      /\ calls = 0

\* C24 (amended): when extraction returns empty content, embedTexts is never
\* called in that run, and the run either ends with pending_transcript,
\* exactly one Source row being stored, with a null content hash, and no
\* Chunk row, or throws the failure of its commit, no row being stored.
C24_EmptyIsPendingOrCommitFails ==
  \A r \in Runs :
    extracted[r] = "empty" /\ pc[r] \in {"release", "done"} =>
      /\ calls = 0
      /\ ChunksOf(r) = {}
      /\ \/ /\ outcome[r] = "pending_transcript"
            /\ Cardinality(SourcesOf(r)) = 1
            /\ \A s \in SourcesOf(r) : s.content_hash = NullHash
            /\ wrote[r] = 1
         \/ /\ outcome[r] = "commit_error"
            /\ SourcesOf(r) = {}
            /\ wrote[r] = 0

\* A run that extracted empty content has returned pending_transcript.
C24_Witness ==
  /\ extracted[1] = "empty"
  /\ pc[1] = "done"
  /\ outcome[1] = "pending_transcript"
  /\ sources # {}

\* The status values _ingest returns.
Returned ==
  {"duplicate_url", "duplicate_content", "invalid", "ok", "pending_transcript"}

\* C25: duplicate URL, duplicate content, invalid non-empty content and empty
\* content end ingest with a returned status; what ingest throws is only the
\* busy error of the lock or a failure of extraction, embedding or commit.
C25_OnlyFailuresThrown ==
  \A r \in Runs :
    Done(r) =>
      /\ outcome[r] \in Returned \cup
                        {"busy", "extract_error", "embed_error", "commit_error"}
      /\ hashSeen[r] = "invalid" => outcome[r] = "invalid"
      /\ extracted[r] = "empty" =>
           outcome[r] \in {"pending_transcript", "commit_error"}

\* C26: every chunk chunkText emits before the final one is at least
\* MIN_CHUNK characters long, for any non-empty input.
C26_ChunksAtLeastMin ==
  fpc = "chunked" => \A i \in 1..(Len(fout) - 1) : fout[i] >= MIN_CHUNK

\* C27: in every reachable store state every Chunk row's source_id is the id
\* of a stored Source row; a delete of a Source leaves none of its Chunks.
C27_NoOrphanChunk ==
  \A c \in chunks : \E s \in sources : s.id = c.source_id

\* A Source stored with Chunks has been deleted, and its Chunks with it.
C27_Witness ==
  \E r \in Runs :
    /\ Done(r)
    /\ outcome[r] = "ok"
    /\ wrote[r] > 1
    /\ SourcesOf(r) = {}
    /\ ChunksOf(r) = {}

\* C28: in every reachable store state the chunk_index values of the Chunks
\* of each Source are exactly 0..N-1, each once, N being the number of its
\* Chunks.
C28_ContiguousOrdinals ==
  \A s \in sources :
    LET own == {c \in chunks : c.source_id = s.id}
        N == Cardinality(own)
    IN  /\ {c.chunk_index : c \in own} = 0..(N - 1)
        /\ \A c, d \in own : c.chunk_index = d.chunk_index => c = d

\* A Source is stored with two Chunks.
C28_Witness ==
  \E s \in sources : Cardinality({c \in chunks : c.source_id = s.id}) = 2

\* The requests of the call in progress that carried a batch to provider p.
Requests(p, batch) ==
  {k \in 1..Len(sent) : sent[k].provider = p /\ sent[k].batch = batch}

C30_BatchesOneAtATime ==
  /\ [](\A k \in 1..Len(sent) :
          LET U == Uncached(texts, cachedAtCall)
              n == Len(Answered(k - 1))
          IN  /\ Len(sent[k].batch) \in 1..BATCH_SIZE
              /\ sent[k].batch = SubSeq(U, n + 1, Min(n + BATCH_SIZE, Len(U))))
  /\ [](epc \in {"gemini", "openai"} => b = Len(Answered(Len(sent))))
  /\ [][b' > b => epc = "delay" /\ epc' = "gemini" /\ sent' = sent]_vars
  /\ [][Len(sent') > Len(sent) => epc \in {"gemini", "openai"}]_vars

\* The second batch of a call has been requested.
C30_Witness ==
  /\ b = BATCH_SIZE
  /\ \E k \in 1..Len(sent) :
        /\ Len(Answered(k - 1)) = BATCH_SIZE
        /\ sent[k].batch # <<>>

\* C31: the cache never holds more than CACHE_MAX entries, and a set of a
\* new key that finds it holding CACHE_MAX removes one entry, the one whose
\* last read or write is the oldest.
C31_BoundedLRU ==
  /\ [](Len(cache) <= CACHE_MAX)
  /\ [][LET had == CacheKeys(cache)
            has == CacheKeys(cache')
        IN  Len(cache) = CACHE_MAX /\ has \ had # {} =>
              /\ Cardinality(had \ has) = 1
              /\ \A r \in had \ has :
                    {k \in had : lastUse[k] < lastUse[r]} = {}]_vars

\* The full cache has lost the second text it was given and keeps the first,
\* which was used since.
C31_Witness ==
  /\ Len(cache) = CACHE_MAX
  /\ CacheHas(cache, 3)
  /\ CacheHas(cache, FillInput[1])
  /\ ~CacheHas(cache, FillInput[2])

\* C32: the steps of a run follow the order URL dedup, extract, validate,
\* hash dedup, chunk, embed, commit, an early return skipping the later
\* ones: a run ending duplicate_url has not called the extractor; a run
\* ending duplicate_url, invalid or duplicate_content has not reached the
\* embedTexts call and has stored nothing; content that reaches the
\* embedTexts call was extracted and found valid; rows are stored only
\* after extraction.
C32_StepsInOrder ==
  \A r \in Runs :
    /\ outcome[r] = "duplicate_url" => extracted[r] = "no"
    /\ outcome[r] \in {"invalid", "duplicate_content"} => extracted[r] = "text"
    /\ outcome[r] \in {"duplicate_url", "invalid", "duplicate_content"} =>
         /\ content[r] = EmptyContent
         /\ wrote[r] = 0
    /\ pc[r] \in {"idle", "exists", "read", "unlink", "open", "write", "dedup",
                  "extract"} =>
         extracted[r] = "no" /\ content[r] = EmptyContent /\ wrote[r] = 0
    /\ pc[r] = "embed" \/ content[r] # EmptyContent =>
         /\ extracted[r] = "text"
         /\ \E m \in Metas :
              validateContent(content[r],
                detectSourceType(normalizeUrl(raw[r])), m).valid
    /\ pc[r] = "embed" => wrote[r] = 0 /\ outcome[r] = Null
    /\ wrote[r] > 0 => extracted[r] # "no"

\* A run has ended duplicate_content after another stored that content.
C32_Witness ==
  \E r \in Runs :
    /\ Done(r)
    /\ outcome[r] = "duplicate_content"
    /\ extracted[r] = "text"
    /\ sources # {}

\* C33: the raw content stored with every Source is at most TRUNCATE_MAX
\* characters long and its content hash is the hash of that stored content;
\* no two Sources hold contents that agree on their first TRUNCATE_MAX
\* characters, and a run whose content reached the embedTexts call holds it
\* truncated.
C33_TruncatedBeforeHash ==
  /\ \A s \in sources :
        /\ ContentLength(s.raw_content) <= TRUNCATE_MAX
        /\ s.content_hash = IF ContentLength(s.raw_content) > 0
                             THEN contentHash(s.raw_content) ELSE NullHash
  /\ \A s1, s2 \in sources :
        /\ ContentLength(s1.raw_content) > 0
        /\ s1.raw_content.text = s2.raw_content.text
        => s1 = s2
  /\ \A r \in Runs : ContentLength(content[r]) <= TRUNCATE_MAX

\* The second run's text, which differs from the stored one after
\* TRUNCATE_MAX characters, was found a duplicate of it.
C33_Witness ==
  /\ Done(2)
  /\ outcome[2] = "duplicate_content"
  /\ \E s \in sources : ContentLength(s.raw_content) = TRUNCATE_MAX

\* The query keys ps are in sorted order.
IsSorted(ps) ==
  \A i \in 1..(Len(ps) - 1) : KeyRank(ps[i]) <= KeyRank(ps[i + 1])

\* C34: for every http(s) URL that parses, normalizeUrl returns a URL with
\* no fragment, no tracking parameter, the other parameters sorted by key, a
\* host without a leading www. that is not twitter.com, and no trailing
\* slash after the path.
C34_CanonicalForm ==
  upc \in {"once", "twice"} /\ IsHttp(rawUrl) =>
    /\ ~once.frag
    /\ \A i \in 1..Len(once.params) : once.params[i] \notin TRACKING_PARAMS
    /\ IsSorted(once.params)
    /\ once.www = 0
    /\ once.host # "twitter.com"
    /\ once.slashes = 0

\* C35: there is a fixed upper bound on the length of every chunk chunkText
\* emits, whatever the input and the lengths of its sentences: no chunk is
\* longer than what a provider is sent of a text, MAX_INPUT characters.
C35_BoundedChunks ==
  fpc = "chunked" => \A i \in 1..Len(fout) : fout[i] <= MAX_INPUT

\* C36: release removes the marker only while the marker records the
\* releasing run as holder: once another run has taken the lock over from
\* an abandoned or corrupt marker and written its own, the release of the
\* earlier holder leaves that marker in place.
C36_ReleaseOwnMarkerOnly ==
  [][\A r \in Runs :
       /\ pc[r] = "release"
       /\ pc'[r] = "done"
       /\ lockFile.kind = "marker"
       /\ lockFile.run # r
       /\ saw[lockFile.run] \in {"abandoned", "boundary", "corrupt"}
       => lockFile' = lockFile]_vars

\* C37: a step of an ingest run changes the store only when the run ends ok
\* or pending_transcript with it, and then it adds exactly one Source row,
\* Chunk rows of that Source only, and removes or changes no row; a run that
\* ends in any other way has stored nothing.
C37_OnlySuccessWrites ==
  /\ [](\A r \in Runs :
          outcome[r] \notin {"ok", "pending_transcript"} =>
            wrote[r] = 0 /\ SourcesOf(r) = {} /\ ChunksOf(r) = {})
  /\ [][pc' # pc /\ <<sources, chunks>>' # <<sources, chunks>> =>
          \E r \in Runs :
            /\ pc'[r] # pc[r]
            /\ outcome'[r] \in {"ok", "pending_transcript"}
            /\ sources \subseteq sources'
            /\ chunks \subseteq chunks'
            /\ Cardinality(sources' \ sources) = 1
            /\ \A c \in chunks' \ chunks :
                  \A s \in sources' \ sources : c.source_id = s.id]_vars

\* One run has ended ok with its rows stored and another has ended
\* duplicate_url.
C37_Witness ==
  \E r1, r2 \in Runs :
    /\ Done(r1) /\ outcome[r1] = "ok" /\ wrote[r1] > 1
    /\ Done(r2) /\ outcome[r2] = "duplicate_url" /\ wrote[r2] = 0

\* The texts of the batches of the current call that a provider answered.
AnsweredTexts ==
  LET done == Answered(Len(sent))
  IN  {done[i] : i \in 1..Len(done)}

\* C38: when embedTexts throws because both providers failed on a batch, the
\* Map holds every text of the batches answered before it and nothing else
\* that it did not hold when the call began (the failed batch added no
\* entry); and when the very next call is the same call again, none of its
\* requests carries a text of those answered batches: the providers get the
\* texts from the failed batch onward only.
C38_EarlierBatchesStayCached ==
  /\ (epc = "thrown" /\ error # TypeError) =>
       /\ AnsweredTexts \subseteq CacheKeys(cache)
       /\ CacheKeys(cache) \subseteq (cachedAtCall \cup AnsweredTexts)
  /\ (epc # "idle" /\ failed.call > 0 /\ calls = failed.call + 1
        /\ texts = failed.texts) =>
       \A k \in 1..Len(sent) :
         \A i \in 1..Len(sent[k].batch) : sent[k].batch[i] \notin failed.done

\* The first call of LongInput threw on its second batch, the same call was
\* made again right after it, and its one request carried the last text only.
C38_Witness ==
  /\ epc = "returned"
  /\ texts = LongInput
  /\ failed.texts = LongInput
  /\ calls = failed.call + 1
  /\ failed.done = {LongInput[i] : i \in 1..BATCH_SIZE}
  /\ Len(sent) = 1
  /\ sent[1].batch = <<LongInput[Len(LongInput)]>>
  /\ sent[1].answered

====
